---- MODULE Spec2Model ----
(***************************************************************************)
(* Threshold BLS (ZenGo-X/multi-party-bls): the Keygen and Sign state      *)
(* machines, their round transitions and the party primitives.             *)
(*                                                                         *)
(* Group elements are written by their discrete logarithm: the point       *)
(* g*x of G1 or G2 is the scalar x of the field Z_Q, point addition is     *)
(* addition mod Q, scalar multiplication is multiplication mod Q and the   *)
(* pairing e(g1*a, g2*b) is a*b mod Q.  Two points are equal exactly when  *)
(* their logarithms are.                                                   *)
(***************************************************************************)
EXTENDS Integers, Sequences, FiniteSets, TLC

VARIABLES
    ctor,   \* constructor calls: the arguments and what new() returned
    kcfg,   \* the Keygen run: t, n, the seed of the randomness
    kg,     \* kg[p]: the Keygen machine of party p
    kret,   \* kret[p]: what the last call on party p's Keygen returned
    knet,   \* Keygen messages handed to the transport and not yet delivered
    scfg,   \* the Sign run: the key set, the signers, the message
    sg,     \* sg[p]: the Sign machine of signer p
    sret,   \* sret[p]: what the last call on signer p's Sign returned
    snet,   \* Sign messages handed to the transport and not yet delivered
    cb,     \* calls of SharedKeys::combine: the key set and the results
    med     \* the mediator: its rooms, the connections and their clients

vars == <<ctor, kcfg, kg, kret, knet, scfg, sg, sret, snet, cb, med>>

ctorVars == <<ctor>>
keygenVars == <<kcfg, kg, kret, knet>>
signVars == <<scfg, sg, sret, snet>>
combineVars == <<cb>>
mediatorVars == <<med>>

\* Option<T>: None is the empty sequence, Some(x) the sequence of x alone.
None == <<>>
Some(x) == <<x>>
IsSome(o) == o # <<>>
Unwrap(o) == o[1]

\* Body at the value of e, with e evaluated once (a let-binding by value)
Bind(e, Body(_)) == CHOOSE y \in {Body(x) : x \in {e}} : TRUE

\* ------------------------------------------------------------------------
\* Scalars and points
\* ------------------------------------------------------------------------

\* Order of G1 and G2 (a prime, larger than every party index used).
Q == 7

Scalars == 0 .. (Q - 1)

Mod(a) == a % Q

Add(a, b) == (a + b) % Q

Sub(a, b) == (a - b) % Q

Mul(a, b) == (a * b) % Q

\* Scalar::invert: None for zero.
Invert(a) ==
    IF a % Q = 0 THEN None ELSE Some(CHOOSE b \in 1 .. (Q - 1) : (a * b) % Q = 1)

\* Point::generator() * x
G2Mul(x) == Mod(x)

RECURSIVE SumSeq(_)
SumSeq(s) == IF s = <<>> THEN 0 ELSE Add(Head(s), SumSeq(Tail(s)))

RECURSIVE Pow(_, _)
Pow(a, k) == IF k = 0 THEN 1 ELSE Mul(a, Pow(a, k - 1))

Range(s) == {s[k] : k \in DOMAIN s}

\* ------------------------------------------------------------------------
\* Keygen::new and Sign::new: parameter validation
\* ------------------------------------------------------------------------

KeygenNewMutThreshold(i, t, n) ==
    IF n < 2 THEN "TooFewParties"
    ELSE IF t = 0 \/ t > n THEN "InvalidThreshold"
    ELSE IF i = 0 \/ i > n THEN "InvalidPartyIndex"
    ELSE "Ok"

\* keygen.rs:43-52 (the result of the checks; "Ok" when the machine is built)
KeygenNew(i, t, n) ==
    IF n < 2 THEN "TooFewParties"
    ELSE IF t = 0 \/ t >= n THEN "InvalidThreshold"
    ELSE IF i = 0 \/ i > n THEN "InvalidPartyIndex"
    ELSE "Ok"

SignNewMutFew(i, n, key_t, key_n) ==
    IF n < key_t THEN "TooFewParties"
    ELSE IF n > key_n THEN "TooManyParties"
    ELSE IF i = 0 \/ i > n THEN "InvalidPartyIndex"
    ELSE "Ok"

\* sign.rs:51-60
SignNew(i, n, key_t, key_n) ==
    IF n < key_t + 1 THEN "TooFewParties"
    ELSE IF n > key_n THEN "TooManyParties"
    ELSE IF i = 0 \/ i > n THEN "InvalidPartyIndex"
    ELSE "Ok"

\* ------------------------------------------------------------------------
\* Randomness.  Scalar::random() and BigInt::sample() are read from a
\* generator whose seed is part of the configuration of a run: draw k of
\* party p.  Draws are non-zero scalars.
\* ------------------------------------------------------------------------

Sample(seed, p, k) == 1 + ((seed * (p + 1) + k * (p + seed + 1) + p * p) % (Q - 1))

\* Draw 0 is the secret u_i, draws 1..t the higher coefficients of the
\* sharing polynomial, then the blinding factor and the proof nonce.
DrawBlind(t) == t + 1
DrawNonce(t) == t + 2

\* ------------------------------------------------------------------------
\* Library primitives as the party code uses them
\* ------------------------------------------------------------------------

\* Distance between the integers BigInt::from_bytes(y.to_bytes(true)) of two
\* consecutive points; wider than any party index added as context.
PointStride == 16

PointToBigInt(y) == y * PointStride

\* HashCommitment::create_commitment_with_user_defined_randomness: a hash
\* without collisions, written as the pair it hashes.
CreateCommitment(message, blind) == <<message, blind>>

\* Polynomial evaluation sum_k coef[k+1] * x^k
RECURSIVE EvalPoly(_, _)
EvalPoly(coef, x) ==
    IF coef = <<>> THEN 0 ELSE Add(Head(coef), Mul(x, EvalPoly(Tail(coef), x)))

\* VerifiableSS::share(t, n, secret) with the given higher coefficients
VssShare(t, n, secret, higher) ==
    LET coef == <<secret>> \o higher
    IN  [scheme |-> [threshold |-> t, share_count |-> n,
                     commitments |-> [k \in 1 .. (t + 1) |-> G2Mul(coef[k])]],
         shares |-> [j \in 1 .. n |-> EvalPoly(coef, j)]]

\* VerifiableSS::validate_share(share, index)
ValidateShare(scheme, share, index) ==
    G2Mul(share) = EvalPoly(scheme.commitments, index)

\* Fiat-Shamir challenge of the DLog proof (a fixed function of the transcript)
DLogChallenge(pk, commitment) == 1 + ((2 * pk + 3 * commitment) % (Q - 1))

\* DLogProof::prove(sk) with nonce k
DLogProve(sk, k) ==
    LET pk == G2Mul(sk)
        a == G2Mul(k)
    IN  [pk |-> pk, pk_t_rand_commitment |-> a,
         challenge_response |-> Sub(k, Mul(DLogChallenge(pk, a), sk))]

\* DLogProof::verify
DLogVerify(proof) ==
    Add(G2Mul(proof.challenge_response),
        Mul(proof.pk, DLogChallenge(proof.pk, proof.pk_t_rand_commitment)))
        = proof.pk_t_rand_commitment

\* Polynomial::lagrange_basis(0, j, xs): prod_{m # j} xs[m] / (xs[m] - xs[j])
RECURSIVE LagrangeNum(_, _, _)
LagrangeNum(xs, j, m) ==
    IF m > Len(xs) THEN 1
    ELSE IF m = j THEN LagrangeNum(xs, j, m + 1)
    ELSE Mul(xs[m], LagrangeNum(xs, j, m + 1))

RECURSIVE LagrangeDen(_, _, _)
LagrangeDen(xs, j, m) ==
    IF m > Len(xs) THEN 1
    ELSE IF m = j THEN LagrangeDen(xs, j, m + 1)
    ELSE Mul(Sub(xs[m], xs[j]), LagrangeDen(xs, j, m + 1))

LagrangeBasisAtZero(xs, j) ==
    LET den == Invert(LagrangeDen(xs, j, 1))
    IN  IF den = None THEN None ELSE Some(Mul(LagrangeNum(xs, j, 1), Unwrap(den)))

\* VerifiableSS::map_share_to_new_params(params, index, s): index and s are
\* 0-based party indexes, the evaluation points are index + 1.  None stands
\* for the panic when s does not include index.
MapShareToNewParams(index, s) ==
    IF \A k \in DOMAIN s : s[k] # index THEN None
    ELSE LET j == CHOOSE k \in DOMAIN s : s[k] = index /\ \A l \in 1 .. (k - 1) : s[l] # index
         IN  LagrangeBasisAtZero([k \in DOMAIN s |-> Mod(s[k] + 1)], j)

\* ------------------------------------------------------------------------
\* Party primitives of the DKG (threshold_bls/party_i.rs)
\* ------------------------------------------------------------------------

\* Keys::phase1_create(index)
Phase1Create(index, u) == [u_i |-> u, y_i |-> G2Mul(u), party_index |-> index]

\* Keys::phase1_broadcast
Phase1Broadcast(keys, blind_factor) ==
    [comm |-> [com |-> CreateCommitment(PointToBigInt(keys.y_i) + keys.party_index,
                                        blind_factor)],
     decom |-> [blind_factor |-> blind_factor, y_i |-> keys.y_i]]

\* Keys::phase1_verify_com_phase2_distribute
Phase1VerifyComPhase2Distribute(keys, params, decom_vec, bc1_vec, higher) ==
    IF Len(decom_vec) # params.share_count \/ Len(bc1_vec) # params.share_count
    THEN [ok |-> FALSE, err |-> "KeyGenMisMatchedVectors"]
    ELSE LET correct_key_correct_decom_all ==
                 \A i \in 0 .. (Len(bc1_vec) - 1) :
                     CreateCommitment(PointToBigInt(decom_vec[i + 1].y_i) + i,
                                      decom_vec[i + 1].blind_factor)
                         = bc1_vec[i + 1].com
             vss == VssShare(params.threshold, params.share_count, keys.u_i, higher)
         IN  IF correct_key_correct_decom_all
             THEN [ok |-> TRUE, vss_scheme |-> vss.scheme,
                   secret_shares |-> vss.shares, index |-> keys.party_index]
             ELSE [ok |-> FALSE, err |-> "KeyGenBadCommitment"]

Phase2SumSharesMutSkipFirst(secret_shares_vec) == SumSeq(Tail(secret_shares_vec))

\* x_i = secret_shares_vec.iter().sum() of phase2_verify_vss_construct_keypair_prove_dlog
Phase2SumShares(secret_shares_vec) == SumSeq(secret_shares_vec)

\* phase2_verify_vss_construct_keypair_prove_dlog that does not compare the
\* constant commitment of a scheme with the decommitted y
Phase2VerifyMutNoConstantCheck(keys, params, y_vec, secret_shares_vec, vss_scheme_vec, index, nonce) ==
    IF \/ Len(y_vec) # params.share_count
       \/ Len(secret_shares_vec) # params.share_count
       \/ Len(vss_scheme_vec) # params.share_count
    THEN [ok |-> FALSE, err |-> "KeyGenMisMatchedVectors"]
    ELSE LET correct_ss_verify ==
                 \A i \in 1 .. Len(y_vec) :
                     ValidateShare(vss_scheme_vec[i], secret_shares_vec[i], index)
             y == SumSeq(y_vec)
             x_i == Phase2SumShares(secret_shares_vec)
         IN  IF correct_ss_verify
             THEN [ok |-> TRUE,
                   shared_keys |-> [index |-> keys.party_index, params |-> params,
                                    vk |-> y, sk_i |-> x_i],
                   dlog_proof |-> DLogProve(x_i, nonce)]
             ELSE [ok |-> FALSE, err |-> "KeyGenInvalidShare"]

\* Keys::phase2_verify_vss_construct_keypair_prove_dlog
Phase2VerifyVssConstructKeypairProveDlog(keys, params, y_vec, secret_shares_vec, vss_scheme_vec, index, nonce) ==
    IF \/ Len(y_vec) # params.share_count
       \/ Len(secret_shares_vec) # params.share_count
       \/ Len(vss_scheme_vec) # params.share_count
    THEN [ok |-> FALSE, err |-> "KeyGenMisMatchedVectors"]
    ELSE LET correct_ss_verify ==
                 \A i \in 1 .. Len(y_vec) :
                     /\ ValidateShare(vss_scheme_vec[i], secret_shares_vec[i], index)
                     /\ vss_scheme_vec[i].commitments[1] = y_vec[i]
             y == SumSeq(y_vec)
             x_i == Phase2SumShares(secret_shares_vec)
         IN  IF correct_ss_verify
             THEN [ok |-> TRUE,
                   shared_keys |-> [index |-> keys.party_index, params |-> params,
                                    vk |-> y, sk_i |-> x_i],
                   dlog_proof |-> DLogProve(x_i, nonce)]
             ELSE [ok |-> FALSE, err |-> "KeyGenInvalidShare"]

\* Keys::verify_dlog_proofs
VerifyDlogProofs(params, dlog_proofs_vec) ==
    IF Len(dlog_proofs_vec) # params.share_count
    THEN [ok |-> FALSE, err |-> "KeyGenMisMatchedVectors"]
    ELSE IF \A k \in 1 .. Len(dlog_proofs_vec) : DLogVerify(dlog_proofs_vec[k])
         THEN [ok |-> TRUE]
         ELSE [ok |-> FALSE, err |-> "KeyGenDlogProofError"]

\* ------------------------------------------------------------------------
\* Message stores of round_based::containers, as the rounds build and use them
\* ------------------------------------------------------------------------

Others(i, n) == (1 .. n) \ {i}

\* BroadcastMsgsStore::new(i, n) and P2PMsgsStore::new(i, n)
NewStore(kind, i, n) ==
    [kind |-> kind, party_i |-> i, n |-> n, msgs |-> [j \in Others(i, n) |-> None]]

\* MessageStore::wants_more
StoreWantsMore(store) == \E j \in DOMAIN store.msgs : store.msgs[j] = None

\* push_msg that lets a sender replace the message it sent before
StorePushCheckMutOverwrite(store, msg) ==
    IF msg.sender = 0 THEN "UnknownSender"
    ELSE IF store.kind = "broadcast" /\ msg.receiver # None THEN "ExpectedBroadcast"
    ELSE IF store.kind = "p2p" /\ msg.receiver = None THEN "ExpectedP2P"
    ELSE IF store.kind = "p2p" /\ msg.receiver # Some(store.party_i) THEN "NotForMe"
    ELSE IF msg.sender = store.party_i THEN "ItsFromMe"
    ELSE IF msg.sender \notin DOMAIN store.msgs THEN "UnknownSender"
    ELSE "Ok"

\* MessageStore::push_msg: the error, or "Ok"
StorePushCheck(store, msg) ==
    IF msg.sender = 0 THEN "UnknownSender"
    ELSE IF store.kind = "broadcast" /\ msg.receiver # None THEN "ExpectedBroadcast"
    ELSE IF store.kind = "p2p" /\ msg.receiver = None THEN "ExpectedP2P"
    ELSE IF store.kind = "p2p" /\ msg.receiver # Some(store.party_i) THEN "NotForMe"
    ELSE IF msg.sender = store.party_i THEN "ItsFromMe"
    ELSE IF msg.sender \notin DOMAIN store.msgs THEN "UnknownSender"
    ELSE IF store.msgs[msg.sender] # None THEN "MsgOverwrite"
    ELSE "Ok"

StorePush(store, msg) == [store EXCEPT !.msgs[msg.sender] = Some(msg.body)]

\* into_vec_including_me that puts the local party's own body last
IntoVecIncludingMeMutOwnLast(store, me) ==
    LET others == SelectSeq([j \in 1 .. store.n |-> j], LAMBDA j : j # store.party_i)
    IN  [k \in 1 .. store.n |->
            IF k = store.n THEN me ELSE Unwrap(store.msgs[others[k]])]

\* MessageStore::finish followed by into_vec_including_me(me): the bodies by
\* party index, the local party's own at position party_i.
IntoVecIncludingMe(store, me) ==
    [j \in 1 .. store.n |-> IF j = store.party_i THEN me ELSE Unwrap(store.msgs[j])]

\* ------------------------------------------------------------------------
\* Keygen rounds (threshold_bls/state_machine/keygen/rounds.rs)
\* ------------------------------------------------------------------------

Msg(sender, receiver, round, body) ==
    [sender |-> sender, receiver |-> receiver, round |-> round, body |-> body]

\* Round0::proceed
KRound0Proceed(r, seed) ==
    LET keys == Phase1Create(r.party_i - 1, Sample(seed, r.party_i, 0))
        bc == Phase1Broadcast(keys, Sample(seed, r.party_i, DrawBlind(r.t)))
    IN  [ok |-> TRUE,
         out |-> <<Msg(r.party_i, None, 1, bc.comm)>>,
         next |-> [keys |-> keys, comm |-> bc.comm, decom |-> bc.decom,
                   party_i |-> r.party_i, t |-> r.t, n |-> r.n]]

\* Round1::proceed that pushes the decommitment twice
KRound1ProceedMutTwice(r, input) ==
    [ok |-> TRUE,
     out |-> <<Msg(r.party_i, None, 2, r.decom), Msg(r.party_i, None, 2, r.decom)>>,
     next |-> [keys |-> r.keys,
               received_comm |-> IntoVecIncludingMe(input, r.comm),
               decom |-> r.decom,
               party_i |-> r.party_i, t |-> r.t, n |-> r.n]]

\* Round1::proceed
KRound1Proceed(r, input) ==
    [ok |-> TRUE,
     out |-> <<Msg(r.party_i, None, 2, r.decom)>>,
     next |-> [keys |-> r.keys,
               received_comm |-> IntoVecIncludingMe(input, r.comm),
               decom |-> r.decom,
               party_i |-> r.party_i, t |-> r.t, n |-> r.n]]

KRound2ReceiversMutShifted(party_i, n) ==
    LET kept == SelectSeq([j \in 1 .. n |-> j], LAMBDA j : j # party_i)
    IN  [k \in DOMAIN kept |-> IF party_i < kept[k] THEN kept[k] ELSE kept[k] + 1]

\* The receivers of the loop of Round2::proceed, in the order it pushes
\* the messages: every index of 1..n but the party's own
KRound2Receivers(party_i, n) ==
    SelectSeq([j \in 1 .. n |-> j], LAMBDA j : j # party_i)

\* Round2::proceed
KRound2Proceed(r, input, seed) ==
    LET params == [threshold |-> r.t, share_count |-> r.n]
        received_decom == IntoVecIncludingMe(input, r.decom)
        higher == [k \in 1 .. r.t |-> Sample(seed, r.party_i, k)]
        receivers == KRound2Receivers(r.party_i, r.n)
    IN  Bind(Phase1VerifyComPhase2Distribute(r.keys, params, received_decom,
                                             r.received_comm, higher), LAMBDA res :
        IF ~res.ok THEN [ok |-> FALSE, err |-> <<"Round2VerifyCommitments", res.err>>]
        ELSE [ok |-> TRUE,
              out |-> [k \in DOMAIN receivers |->
                          Msg(r.party_i, Some(receivers[k]), 3,
                              [vss |-> res.vss_scheme,
                               share |-> res.secret_shares[receivers[k]]])],
              next |-> [keys |-> r.keys,
                        y_vec |-> [j \in DOMAIN received_decom |-> received_decom[j].y_i],
                        index |-> res.index,
                        own_vss |-> res.vss_scheme,
                        own_share |-> res.secret_shares[r.party_i],
                        party_i |-> r.party_i, t |-> r.t, n |-> r.n]])

\* Round3::proceed
KRound3Proceed(r, input, seed) ==
    LET params == [threshold |-> r.t, share_count |-> r.n]
        both == IntoVecIncludingMe(input, [vss |-> r.own_vss, share |-> r.own_share])
        vss_schemes == [j \in DOMAIN both |-> both[j].vss]
        party_shares == [j \in DOMAIN both |-> both[j].share]
    IN  Bind(Phase2VerifyVssConstructKeypairProveDlog(
                 r.keys, params, r.y_vec, party_shares, vss_schemes, r.index + 1,
                 Sample(seed, r.party_i, DrawNonce(r.t))), LAMBDA res :
        IF ~res.ok THEN [ok |-> FALSE, err |-> <<"Round3VerifyVssConstruct", res.err>>]
        ELSE [ok |-> TRUE,
              out |-> <<Msg(r.party_i, None, 4, res.dlog_proof)>>,
              next |-> [shared_keys |-> res.shared_keys,
                        own_dlog_proof |-> res.dlog_proof,
                        party_i |-> r.party_i, t |-> r.t, n |-> r.n]])

KRound4VkVecMutOwnLast(input, own_dlog_proof) ==
    LET all == IntoVecIncludingMe(input, own_dlog_proof)
        others == SelectSeq([j \in 1 .. input.n |-> j], LAMBDA j : j # input.party_i)
    IN  [k \in 1 .. input.n |->
            IF k = input.n THEN own_dlog_proof.pk ELSE all[others[k]].pk]

\* vk_vec of Round4::proceed: the pk of every proof, by party index
KRound4VkVec(input, own_dlog_proof) ==
    LET dlog_proofs == IntoVecIncludingMe(input, own_dlog_proof)
    IN  [j \in DOMAIN dlog_proofs |-> dlog_proofs[j].pk]

\* Round4::proceed
KRound4Proceed(r, input) ==
    LET params == [threshold |-> r.t, share_count |-> r.n]
        dlog_proofs == IntoVecIncludingMe(input, r.own_dlog_proof)
        res == VerifyDlogProofs(params, dlog_proofs)
    IN  IF ~res.ok THEN [ok |-> FALSE, err |-> <<"Round4VerifyDLogProof", res.err>>]
        ELSE [ok |-> TRUE,
              out |-> <<>>,
              next |-> [shared_keys |-> r.shared_keys,
                        vk_vec |-> KRound4VkVec(input, r.own_dlog_proof),
                        i |-> r.party_i, t |-> r.t, n |-> r.n]]

\* is_expensive that is false for Round0 too
KIsExpensiveMutRound0Cheap(round) == round \notin {"Round0", "Round1"}

\* Round{0..4}::is_expensive
KIsExpensive(round) == round # "Round1"

\* ------------------------------------------------------------------------
\* Keygen state machine (threshold_bls/state_machine/keygen.rs)
\* ------------------------------------------------------------------------

\* The value a call returned: result is "Ok", "Err", "Panic", "None",
\* "SomeOk" or "SomeErr"; err the error, val the output picked.  ran is the
\* number of round transitions the call executed, filled in by the driver;
\* arg is the message a handle_incoming call was given, where the caller
\* records it.
Ret(call, result, err, val) ==
    [call |-> call, result |-> result, err |-> err, val |-> val, ran |-> 0,
     arg |-> None]

\* The result r of handle_incoming(msg), with msg recorded
WithArg(r, msg) == [r EXCEPT !.ret.arg = Some(msg)]

\* An error value: its variant, the inner error or store error it wraps, and
\* the fields of ReceivedOutOfOrderMessage.
Error(kind, detail, current_round, msg_round) ==
    [kind |-> kind, detail |-> detail, current_round |-> current_round,
     msg_round |-> msg_round]

NoError == Error("", "", 0, 0)

\* The parties an error value names: of all the variants only
\* PartySentOutOfRangeIndex has a field for one (who)
ErrorBlames(err) ==
    IF err.kind = "PartySentOutOfRangeIndex" THEN {err.detail.who} ELSE {}

NoCall == Ret("new", "Ok", NoError, None)

\* The state Keygen::new builds when its checks pass, before its
\* proceed_round(false).  executed lists the rounds whose transition was
\* run, in the order they ran.
KeygenInit(i, t, n) ==
    [round |-> "Round0",
     st |-> [party_i |-> i, t |-> t, n |-> n],
     msgs |-> [k \in 1 .. 4 |->
                  Some(NewStore(IF k = 3 THEN "p2p" ELSE "broadcast", i, n))],
     msgs_queue |-> <<>>,
     party_i |-> i,
     party_n |-> n,
     executed |-> <<>>, failed |-> FALSE]

\* Keygen::current_round
KCurrentRound(m) ==
    CASE m.round = "Round0" -> 0
      [] m.round = "Round1" -> 1
      [] m.round = "Round2" -> 2
      [] m.round = "Round3" -> 3
      [] m.round = "Round4" -> 4
      [] OTHER -> 5

KRoundName(k) ==
    CASE k = 0 -> "Round0" [] k = 1 -> "Round1" [] k = 2 -> "Round2"
      [] k = 3 -> "Round3" [] k = 4 -> "Round4" [] OTHER -> "Final"

\* store{k}_wants_more of proceed_round and wants_to_proceed
KStoreWantsMore(m, k) == IF IsSome(m.msgs[k]) THEN StoreWantsMore(Unwrap(m.msgs[k])) ELSE FALSE

\* The transition of round k on the store taken from msgs{k}
KRoundProceed(m, k, seed) ==
    CASE k = 0 -> KRound0Proceed(m.st, seed)
      [] k = 1 -> KRound1Proceed(m.st, Unwrap(m.msgs[1]))
      [] k = 2 -> KRound2Proceed(m.st, Unwrap(m.msgs[2]), seed)
      [] k = 3 -> KRound3Proceed(m.st, Unwrap(m.msgs[3]), seed)
      [] OTHER -> KRound4Proceed(m.st, Unwrap(m.msgs[4]))

\* One arm of the match in proceed_round: the guard of round k
KMayProceed(m, k, may_block) ==
    IF k = 0 THEN ~KIsExpensive(m.round) \/ may_block
    ELSE ~KStoreWantsMore(m, k) /\ (~KIsExpensive(m.round) \/ may_block)

\* Keygen::proceed_round.  self.round is replaced by Gone before the round
\* runs, so an error return leaves Gone behind; the store is taken first.
RECURSIVE KProceedRound(_, _, _)

\* proceed_round that puts the round back when its transition fails
KAfterRoundMutKeepsRound(m, k, res, may_block, seed) ==
    LET taken == IF k = 0 THEN m.msgs ELSE [m.msgs EXCEPT ![k] = None]
    IN  IF res.ok
        THEN Bind([m EXCEPT !.round = KRoundName(k + 1),
                            !.st = res.next,
                            !.msgs = taken,
                            !.msgs_queue = @ \o res.out,
                            !.executed = Append(@, k)],
                  LAMBDA m2 : KProceedRound(m2, may_block, seed))
        ELSE [m |-> [m EXCEPT !.msgs = taken,
                              !.executed = Append(@, k), !.failed = TRUE],
              ret |-> Ret("proceed", "Err", Error(res.err[1], res.err[2], k, k), None)]

KAfterRound(m, k, res, may_block, seed) ==
    LET taken == IF k = 0 THEN m.msgs ELSE [m.msgs EXCEPT ![k] = None]
    IN  IF res.ok
        THEN Bind([m EXCEPT !.round = KRoundName(k + 1),
                            !.st = res.next,
                            !.msgs = taken,
                            !.msgs_queue = @ \o res.out,
                            !.executed = Append(@, k)],
                  LAMBDA m2 : KProceedRound(m2, may_block, seed))
        ELSE [m |-> [m EXCEPT !.round = "Gone", !.st = None, !.msgs = taken,
                              !.executed = Append(@, k), !.failed = TRUE],
              ret |-> Ret("proceed", "Err", Error(res.err[1], res.err[2], k, k), None)]

KProceedRound(m, may_block, seed) ==
    LET k == KCurrentRound(m)
    IN  IF k = 5 \/ ~KMayProceed(m, k, may_block)
        THEN [m |-> m, ret |-> Ret("proceed", "Ok", NoError, None)]
        ELSE IF k >= 1 /\ m.msgs[k] = None
        THEN [m |-> [m EXCEPT !.round = "Gone", !.st = None, !.failed = TRUE],
              ret |-> Ret("proceed", "Panic", Error("expect", "store gone before round complete", k, k), None)]
        ELSE Bind(KRoundProceed(m, k, seed),
                  LAMBDA res : KAfterRound(m, k, res, may_block, seed))

\* handle_incoming that takes a message only in the round it belongs to
KHandleIncomingMutStrict(m, msg, seed) ==
    LET current_round == KCurrentRound(m)
        k == msg.round
    IN  IF m.msgs[k] = None \/ current_round # k
        THEN [m |-> m,
              ret |-> Ret("handle_incoming", "Err",
                          Error("ReceivedOutOfOrderMessage", "", current_round, k), None)]
        ELSE LET check == StorePushCheck(Unwrap(m.msgs[k]), msg)
             IN  IF check # "Ok"
                 THEN [m |-> m,
                       ret |-> Ret("handle_incoming", "Err",
                                   Error("HandleMessage", check, current_round, k), None)]
                 ELSE Bind([m EXCEPT !.msgs[k] = Some(StorePush(Unwrap(@), msg))],
                           LAMBDA m2 :
                               Bind(KProceedRound(m2, FALSE, seed),
                                    LAMBDA r : [m |-> r.m,
                                                ret |-> [r.ret EXCEPT !.call = "handle_incoming"]]))

\* handle_incoming that keeps in the store the message it rejects
KHandleIncomingMutKeepsRejected(m, msg, seed) ==
    LET current_round == KCurrentRound(m)
        k == msg.round
    IN  IF m.msgs[k] = None
        THEN [m |-> m,
              ret |-> Ret("handle_incoming", "Err",
                          Error("ReceivedOutOfOrderMessage", "", current_round, k), None)]
        ELSE LET check == StorePushCheck(Unwrap(m.msgs[k]), msg)
             IN  IF check # "Ok"
                 THEN [m |-> IF msg.sender \in DOMAIN Unwrap(m.msgs[k]).msgs
                             THEN [m EXCEPT !.msgs[k] = Some(StorePush(Unwrap(@), msg))]
                             ELSE m,
                       ret |-> Ret("handle_incoming", "Err",
                                   Error("HandleMessage", check, current_round, k), None)]
                 ELSE Bind([m EXCEPT !.msgs[k] = Some(StorePush(Unwrap(@), msg))],
                           LAMBDA m2 :
                               Bind(KProceedRound(m2, FALSE, seed),
                                    LAMBDA r : [m |-> r.m,
                                                ret |-> [r.ret EXCEPT !.call = "handle_incoming"]]))

\* Keygen::handle_incoming
KHandleIncoming(m, msg, seed) ==
    LET current_round == KCurrentRound(m)
        k == msg.round
    IN  IF m.msgs[k] = None
        THEN [m |-> m,
              ret |-> Ret("handle_incoming", "Err",
                          Error("ReceivedOutOfOrderMessage", "", current_round, k), None)]
        ELSE LET check == StorePushCheck(Unwrap(m.msgs[k]), msg)
             IN  IF check # "Ok"
                 THEN [m |-> m,
                       ret |-> Ret("handle_incoming", "Err",
                                   Error("HandleMessage", check, current_round, k), None)]
                 ELSE Bind([m EXCEPT !.msgs[k] = Some(StorePush(Unwrap(@), msg))],
                           LAMBDA m2 :
                               Bind(KProceedRound(m2, FALSE, seed),
                                    LAMBDA r : [m |-> r.m,
                                                ret |-> [r.ret EXCEPT !.call = "handle_incoming"]]))

\* wants_to_proceed that does not look at the store of the round
KWantsToProceedMutAnyStore(m) ==
    m.round \in {"Round0", "Round1", "Round2", "Round3", "Round4"}

\* Keygen::wants_to_proceed
KWantsToProceed(m) ==
    CASE m.round = "Round0" -> TRUE
      [] m.round \in {"Round1", "Round2", "Round3", "Round4"} ->
             ~KStoreWantsMore(m, KCurrentRound(m))
      [] OTHER -> FALSE

\* Keygen::proceed
KProceed(m, seed) == KProceedRound(m, TRUE, seed)

\* The machine Keygen::new returns: state.proceed_round(false)?; Ok(state)
KeygenBuilt(i, t, n, seed) == KProceedRound(KeygenInit(i, t, n), FALSE, seed).m

\* Keygen::is_finished
KIsFinished(m) == m.round = "Final"

KPickOutputMutRestart(m) ==
    CASE m.round = "Final" ->
             [m |-> [m EXCEPT !.round = "Round0",
                              !.st = [party_i |-> m.st.i, t |-> m.st.t, n |-> m.st.n]],
              ret |-> Ret("pick_output", "SomeOk", NoError, Some(m.st))]
      [] m.round = "Gone" ->
             [m |-> m, ret |-> Ret("pick_output", "SomeErr", Error("DoublePickResult", "", 0, 0), None)]
      [] OTHER -> [m |-> m, ret |-> Ret("pick_output", "None", NoError, None)]

\* Keygen::pick_output
KPickOutput(m) ==
    CASE m.round = "Final" ->
             [m |-> [m EXCEPT !.round = "Gone", !.st = None],
              ret |-> Ret("pick_output", "SomeOk", NoError, Some(m.st))]
      [] m.round = "Gone" ->
             [m |-> m, ret |-> Ret("pick_output", "SomeErr", Error("DoublePickResult", "", 0, 0), None)]
      [] OTHER -> [m |-> m, ret |-> Ret("pick_output", "None", NoError, None)]

\* ------------------------------------------------------------------------
\* A Keygen run of n honest parties over a transport that delivers every
\* message to its recipients, in any order
\* ------------------------------------------------------------------------

\* (t, n) of the runs: keygen.rs tests simulate_keygen_t1_n2, _t1_n3, _t2_n3
KeygenParams == {<<1, 2>>, <<1, 3>>, <<2, 3>>}

MaxSeed == 2

Seeds == 1 .. MaxSeed

Unused == <<>>

KParties == DOMAIN kg

\* The deliveries of the messages a call appended to the queue: a broadcast
\* goes to every other party, a P2P message to its receiver.
Deliveries(msgs, from, n) ==
    UNION {IF msgs[k].receiver = None
           THEN {[to |-> q, msg |-> msgs[k]] : q \in (1 .. n) \ {msgs[k].sender}}
           ELSE {[to |-> Unwrap(msgs[k].receiver), msg |-> msgs[k]]}
           : k \in (from + 1) .. Len(msgs)}

\* The variables of the other specifications stay at Unused in a Keygen run
KeygenRunIdle ==
    /\ ctor = Unused /\ scfg = Unused /\ sg = Unused /\ sret = Unused
    /\ snet = Unused /\ cb = Unused /\ med = Unused

KeygenOnly == UNCHANGED <<ctorVars, signVars, combineVars, mediatorVars>>

KeygenRunInit ==
    /\ KeygenRunIdle
    /\ \E c \in KeygenParams, seed \in Seeds :
           /\ kcfg = [t |-> c[1], n |-> c[2], seed |-> seed]
           /\ kg = [p \in 1 .. c[2] |-> KeygenBuilt(p, c[1], c[2], seed)]
           /\ kret = [p \in 1 .. c[2] |-> NoCall]
    /\ knet = {}

\* The outcome r of a call on party p becomes the state; the messages it
\* queued go to the transport.
KApply(p, r) ==
    /\ kg' = [kg EXCEPT ![p] = r.m]
    /\ kret' = [kret EXCEPT ![p] = [r.ret EXCEPT !.ran = Len(r.m.executed)
                                                    - Len(kg[p].executed)]]
    /\ UNCHANGED kcfg

KSent(p, r) == Deliveries(r.m.msgs_queue, Len(kg[p].msgs_queue), kcfg.n)

\* The transport hands a message to its recipient: handle_incoming
KDeliver ==
    \E d \in knet :
        \E r \in {KHandleIncoming(kg[d.to], d.msg, kcfg.seed)} :
            /\ KApply(d.to, r)
            /\ knet' = (knet \ {d}) \cup KSent(d.to, r)
            /\ KeygenOnly

\* The driver calls proceed() when wants_to_proceed()
KDriverProceed(p) ==
    /\ KWantsToProceed(kg[p])
    /\ \E r \in {KProceed(kg[p], kcfg.seed)} :
           /\ KApply(p, r)
           /\ knet' = knet \cup KSent(p, r)
           /\ KeygenOnly

\* The driver picks the output of a finished machine
KDriverPickOutput(p) ==
    /\ KIsFinished(kg[p])
    /\ \E r \in {KPickOutput(kg[p])} : KApply(p, r)
    /\ UNCHANGED knet
    /\ KeygenOnly

KeygenRunNext ==
    \/ KDeliver
    \/ \E p \in KParties : KDriverProceed(p)
    \/ \E p \in KParties : KDriverPickOutput(p)

SpecKeygen == KeygenRunInit /\ [][KeygenRunNext]_vars

\* The transport delivers every message and the driver calls proceed()
\* whenever the machine wants to.  The second conjunct is weak fairness of
\* KDriverProceed(p), with its enabling condition written out: the action
\* is enabled exactly when wants_to_proceed(), and changes the machine.
SpecKeygenFair ==
    /\ SpecKeygen
    /\ WF_vars(KDeliver)
    /\ \A p \in 1 .. 3 :
           \/ []<>(~(p \in KParties /\ KWantsToProceed(kg[p])))
           \/ []<><<p \in KParties /\ KDriverProceed(p)>>_vars

\* ------------------------------------------------------------------------
\* Calls of the constructors with arbitrary small arguments
\* ------------------------------------------------------------------------

MaxArg == 4

Args == 0 .. MaxArg

\* (t, n) of a key produced by Keygen
KeyParams == {c \in Args \X Args : 1 <= c[1] /\ c[1] < c[2]}

CtorCall(call, i, t, n, key_t, key_n, ret) ==
    [call |-> call, i |-> i, t |-> t, n |-> n, key_t |-> key_t, key_n |-> key_n,
     ret |-> ret]

CtorIdle ==
    /\ kcfg = Unused /\ kg = Unused /\ kret = Unused /\ knet = Unused
    /\ scfg = Unused /\ sg = Unused /\ sret = Unused /\ snet = Unused
    /\ cb = Unused /\ med = Unused

CtorOnly == UNCHANGED <<keygenVars, signVars, combineVars, mediatorVars>>

CtorInit ==
    /\ CtorIdle
    /\ ctor = CtorCall("none", 0, 0, 0, 0, 0, "Ok")

CallKeygenNew ==
    \E i \in Args, t \in Args, n \in Args :
        /\ ctor' = CtorCall("Keygen::new", i, t, n, 0, 0, KeygenNew(i, t, n))
        /\ CtorOnly

CallSignNew ==
    \E i \in Args, n \in Args, key \in KeyParams :
        /\ ctor' = CtorCall("Sign::new", i, 0, n, key[1], key[2],
                            SignNew(i, n, key[1], key[2]))
        /\ CtorOnly

CtorNext == CallKeygenNew \/ CallSignNew

SpecCtor == CtorInit /\ [][CtorNext]_vars

\* C1: Keygen::new(i, t, n) returns TooFewParties when n < 2; otherwise
\* InvalidThreshold when t = 0 or t >= n; otherwise InvalidPartyIndex when
\* i = 0 or i > n; it succeeds exactly when n >= 2, 1 <= t <= n-1, 1 <= i <= n.
C1_KeygenNewValidation ==
    ctor.call = "Keygen::new" =>
        LET nOk == ctor.n >= 2
            tOk == 1 <= ctor.t /\ ctor.t <= ctor.n - 1
            iOk == 1 <= ctor.i /\ ctor.i <= ctor.n
        IN  /\ ~nOk => ctor.ret = "TooFewParties"
            /\ nOk /\ ~tOk => ctor.ret = "InvalidThreshold"
            /\ nOk /\ tOk /\ ~iOk => ctor.ret = "InvalidPartyIndex"
            /\ ctor.ret = "Ok" <=> (nOk /\ tOk /\ iOk)

\* Keygen::new was called with t = n >= 2 and refused the threshold
C1_Witness ==
    /\ ctor.call = "Keygen::new"
    /\ ctor.n >= 2 /\ ctor.t = ctor.n /\ ctor.i = 0
    /\ ctor.ret = "InvalidThreshold"

\* C2: Sign::new(message, i, n', key) returns TooFewParties when
\* n' < key.t + 1; otherwise TooManyParties when n' > key.n; otherwise
\* InvalidPartyIndex when i = 0 or i > n'; it succeeds exactly when
\* key.t + 1 <= n' <= key.n and 1 <= i <= n'.
C2_SignNewValidation ==
    ctor.call = "Sign::new" =>
        LET fewOk == ctor.n >= ctor.key_t + 1
            manyOk == ctor.n <= ctor.key_n
            iOk == 1 <= ctor.i /\ ctor.i <= ctor.n
        IN  /\ ~fewOk => ctor.ret = "TooFewParties"
            /\ fewOk /\ ~manyOk => ctor.ret = "TooManyParties"
            /\ fewOk /\ manyOk /\ ~iOk => ctor.ret = "InvalidPartyIndex"
            /\ ctor.ret = "Ok" <=> (fewOk /\ manyOk /\ iOk)

\* Sign::new was called with exactly key.t signers and refused them
C2_Witness ==
    /\ ctor.call = "Sign::new"
    /\ ctor.n = ctor.key_t /\ ctor.i = 1
    /\ ctor.ret = "TooFewParties"

\* ------------------------------------------------------------------------
\* Properties of an all-honest Keygen run
\* ------------------------------------------------------------------------

\* The LocalKey party p's machine has produced: the Final state, or the
\* output the last call picked.
KLocalKey(p) ==
    IF kg[p].round = "Final" THEN Some(kg[p].st)
    ELSE IF kret[p].result = "SomeOk" THEN kret[p].val
    ELSE None

KHasKey(p) == IsSome(KLocalKey(p))

KKey(p) == Unwrap(KLocalKey(p))

\* The secret u_j party j drew in round 0
KSecret(j) == Sample(kcfg.seed, j, 0)

RECURSIVE SumOver(_, _)
SumOver(S, f) ==
    IF S = {} THEN 0
    ELSE LET x == CHOOSE y \in S : TRUE IN Add(f[x], SumOver(S \ {x}, f))

\* The elements of a set of numbers in ascending order
RECURSIVE SortedSeq(_)
SortedSeq(S) ==
    IF S = {} THEN <<>>
    ELSE LET x == CHOOSE y \in S : \A z \in S : y <= z IN <<x>> \o SortedSeq(S \ {x})

KNoCallFailed == \A p \in KParties : kret[p].result \notin {"Err", "Panic"}

\* C3: when all n Keygen parties are honest, every message is eventually
\* delivered (in any order) and proceed() is called whenever
\* wants_to_proceed(), every party eventually reaches is_finished() = true
\* and no handle_incoming or proceed call returns an error.
C3_KeygenTerminates ==
    /\ \A p \in 1 .. 3 : <>(p \in KParties => KIsFinished(kg[p]))
    /\ []KNoCallFailed

\* All three parties of a run with n = 3 hold their LocalKey and every
\* message has been delivered
C3_Witness ==
    /\ kcfg.n = 3
    /\ \A p \in KParties : KHasKey(p)
    /\ knet = {}
    /\ KNoCallFailed

\* C4: after an all-honest Keygen run the LocalKeys of all parties carry the
\* same vk, vk_vec, t and n; vk is the sum of all parties' y_j; and
\* vk_vec[j-1] = g2 * sk_j for the share sk_j of party j, whose key has i = j.
C4_KeygenKeysAgree ==
    \A p \in KParties : KHasKey(p) =>
        /\ KKey(p).i = p
        /\ KKey(p).t = kcfg.t /\ KKey(p).n = kcfg.n
        /\ Len(KKey(p).vk_vec) = kcfg.n
        /\ KKey(p).shared_keys.vk
               = SumOver(KParties, [j \in KParties |-> G2Mul(KSecret(j))])
        /\ \A j \in KParties : KHasKey(j) =>
               /\ KKey(j).shared_keys.vk = KKey(p).shared_keys.vk
               /\ KKey(j).vk_vec = KKey(p).vk_vec
               /\ KKey(j).t = KKey(p).t /\ KKey(j).n = KKey(p).n
               /\ KKey(p).vk_vec[j] = G2Mul(KKey(j).shared_keys.sk_i)

\* All parties of a run with n = 3 hold keys, and two shares differ
C4_Witness ==
    /\ kcfg.n = 3
    /\ \A p \in KParties : KHasKey(p)
    /\ KKey(1).shared_keys.sk_i # KKey(2).shared_keys.sk_i

\* Interpolation at 0 of the shares of the parties in S
KInterpolate(S) ==
    LET xs == SortedSeq(S)
    IN  SumSeq([k \in DOMAIN xs |->
                   Mul(KKey(xs[k]).shared_keys.sk_i, Unwrap(LagrangeBasisAtZero(xs, k)))])

\* C5: after an honest DKG, for any t+1 parties the Lagrange interpolation at
\* 0 of their shares equals the sum of all parties' initial secrets u_j.
C5_SharesReconstructSecret ==
    \A S \in SUBSET KParties :
        (Cardinality(S) = kcfg.t + 1 /\ \A p \in S : KHasKey(p)) =>
            KInterpolate(S) = SumOver(KParties, [j \in KParties |-> KSecret(j)])

\* In a (1, 3) run parties 2 and 3 (not the first t+1) hold their keys
C5_Witness ==
    /\ kcfg.n = 3 /\ kcfg.t = 1
    /\ KHasKey(2) /\ KHasKey(3)
    /\ KKey(2).shared_keys.sk_i # KKey(3).shared_keys.sk_i

\* ------------------------------------------------------------------------
\* Signing primitives (threshold_bls/party_i.rs, threshold_bls/utilities.rs)
\* A G1 point is written by its discrete logarithm, as a G2 point is.
\* ------------------------------------------------------------------------

\* Point * Scalar
PointMul(point, scalar) == Mul(point, scalar)

\* G1Point::hash_to_curve of message x: a fixed non-identity point
HashToCurve(x) == 1 + ((2 * x + 1) % (Q - 1))

\* The pairing e(a, b) of a G1 point and a G2 point
Pairing(a, b) == Mul(a, b)

\* Draw of the nonce s1 of ECDDHProof::prove
DrawDdhNonce(t) == t + 3

\* The Fiat-Shamir challenge e of ECDDHProof (a fixed function of the
\* statement and the commitments)
ECDDHChallenge(delta, a1, a2) ==
    1 + ((delta.g1 + 2 * delta.h1 + 3 * delta.g2 + 4 * delta.h2 + 5 * a1 + a2 * a2)
             % (Q - 1))

\* ECDDHProof::prove(w, delta) with nonce s
ECDDHProve(w, delta, s) ==
    LET a1 == PointMul(delta.g1, s)
        a2 == PointMul(delta.g2, s)
        e == ECDDHChallenge(delta, a1, a2)
    IN  [a1 |-> a1, a2 |-> a2, z |-> Add(s, Mul(e, w))]

\* verify that checks the equation in G1 only
ECDDHVerifyMutG1Only(proof, delta) ==
    LET e == ECDDHChallenge(delta, proof.a1, proof.a2)
    IN  PointMul(delta.g1, proof.z) = Add(proof.a1, PointMul(delta.h1, e))

\* ECDDHProof::verify(delta)
ECDDHVerify(proof, delta) ==
    LET e == ECDDHChallenge(delta, proof.a1, proof.a2)
    IN  /\ PointMul(delta.g1, proof.z) = Add(proof.a1, PointMul(delta.h1, e))
        /\ PointMul(delta.g2, proof.z) = Add(proof.a2, PointMul(delta.h2, e))

\* SharedKeys::get_shared_pubkey
GetSharedPubkey(shared_keys) == G2Mul(shared_keys.sk_i)

\* SharedKeys::partial_sign(x) with the nonce of its proof; ok is the
\* assert! on the proof just made
PartialSign(shared_keys, x, nonce) ==
    LET H_x == HashToCurve(x)
        sigma_i == PointMul(H_x, shared_keys.sk_i)
        delta == [g1 |-> H_x, h1 |-> sigma_i, g2 |-> G2Mul(1),
                  h2 |-> GetSharedPubkey(shared_keys)]
        ddh_proof == ECDDHProve(shared_keys.sk_i, delta, nonce)
    IN  [ok |-> ECDDHVerify(ddh_proof, delta),
         partial_sig |-> [index |-> shared_keys.index, sigma_i |-> sigma_i,
                          ddh_proof |-> ddh_proof],
         H_x |-> H_x]

\* SharedKeys::verify_partial_sig(H_x, partial_sig, vk_i)
VerifyPartialSig(H_x, partial_sig, vk_i) ==
    ECDDHVerify(partial_sig.ddh_proof,
                [g1 |-> H_x, h1 |-> partial_sig.sigma_i, g2 |-> G2Mul(1), h2 |-> vk_i])

CombineResult(result, err, sigma) == [result |-> result, err |-> err, sigma |-> sigma]

CombineSigmaMutHeadIndex(params, partial_sigs_vec, s) ==
    LET used == SubSeq(s, 1, params.threshold + 1)
        lam == MapShareToNewParams(partial_sigs_vec[1].index, used)
    IN  IF lam = None THEN None
        ELSE Some(SumSeq([k \in 1 .. (params.threshold + 1) |->
                             PointMul(partial_sigs_vec[k].sigma_i, Unwrap(lam))]))

CombineSigmaMutWholeList(params, partial_sigs_vec, s) ==
    LET lam == [k \in 1 .. (params.threshold + 1) |->
                   MapShareToNewParams(partial_sigs_vec[k].index, s)]
    IN  IF \E k \in DOMAIN lam : lam[k] = None THEN None
        ELSE Some(SumSeq([k \in DOMAIN lam |->
                             PointMul(partial_sigs_vec[k].sigma_i, Unwrap(lam[k]))]))

\* The fold of SharedKeys::combine over head and tail[0..t]; None stands
\* for the panic of map_share_to_new_params
CombineSigma(params, partial_sigs_vec, s) ==
    LET used == SubSeq(s, 1, params.threshold + 1)
        lam == [k \in 1 .. (params.threshold + 1) |->
                   MapShareToNewParams(partial_sigs_vec[k].index, used)]
    IN  IF \E k \in DOMAIN lam : lam[k] = None THEN None
        ELSE Some(SumSeq([k \in DOMAIN lam |->
                             PointMul(partial_sigs_vec[k].sigma_i, Unwrap(lam[k]))]))

\* combine that verifies only the partial signatures the fold uses
CombineMutVerifyUsed(params, vk_vec, partial_sigs_vec, H_x, s) ==
    IF \/ Len(vk_vec) # Len(partial_sigs_vec)
       \/ Len(vk_vec) < params.threshold
       \/ Len(s) < params.threshold
       \/ Len(s) > params.share_count
    THEN CombineResult("Err", "SigningMisMatchedVectors", 0)
    ELSE IF \E i \in 1 .. Len(vk_vec) :
                /\ i <= params.threshold + 1
                /\ ~VerifyPartialSig(H_x, partial_sigs_vec[i], vk_vec[i])
    THEN CombineResult("Err", "PartialSignatureVerificationError", 0)
    ELSE IF Len(partial_sigs_vec) < params.threshold + 1 \/ Len(s) < params.threshold + 1
    THEN CombineResult("Panic", "slice index out of range", 0)
    ELSE Bind(CombineSigma(params, partial_sigs_vec, s), LAMBDA sigma :
             IF sigma = None
             THEN CombineResult("Panic", "map_share_to_new_params", 0)
             ELSE CombineResult("Ok", "", Unwrap(sigma)))

\* SharedKeys::combine(vk_vec, partial_sigs_vec, H_x, s)
Combine(params, vk_vec, partial_sigs_vec, H_x, s) ==
    IF \/ Len(vk_vec) # Len(partial_sigs_vec)
       \/ Len(vk_vec) < params.threshold
       \/ Len(s) < params.threshold
       \/ Len(s) > params.share_count
    THEN CombineResult("Err", "SigningMisMatchedVectors", 0)
    ELSE IF \E i \in 1 .. Len(vk_vec) :
                ~VerifyPartialSig(H_x, partial_sigs_vec[i], vk_vec[i])
    THEN CombineResult("Err", "PartialSignatureVerificationError", 0)
    ELSE IF Len(partial_sigs_vec) < params.threshold + 1 \/ Len(s) < params.threshold + 1
    THEN CombineResult("Panic", "slice index out of range", 0)
    ELSE Bind(CombineSigma(params, partial_sigs_vec, s), LAMBDA sigma :
             IF sigma = None
             THEN CombineResult("Panic", "map_share_to_new_params", 0)
             ELSE CombineResult("Ok", "", Unwrap(sigma)))

\* BLSSignature::verify: e(H(m), Y) * e(sigma, -g2) is the unit
BlsVerify(sigma, message, pubkey) ==
    Add(Pairing(HashToCurve(message), pubkey), Pairing(sigma, Sub(0, G2Mul(1)))) = 0

\* ------------------------------------------------------------------------
\* Sign rounds and their store (threshold_bls/state_machine/sign/rounds.rs)
\* ------------------------------------------------------------------------

\* Round1::expects_messages(i, n, local_key, message_to_sign)
SExpectsMessages(i, n, local_key, message_to_sign) ==
    [msgs |-> <<>>, received_from |-> {}, i |-> i, H_x |-> message_to_sign,
     vk_vec |-> local_key.vk_vec, signers_n |-> n,
     secret_holders |-> local_key.n, threshold |-> local_key.t]

\* wants_more that waits for every other signer
SStoreWantsMoreMutAllSigners(store) == Len(store.msgs) < store.signers_n - 1

\* ReceiveFirstValidPartialSigs::wants_more
SStoreWantsMore(store) == Len(store.msgs) < store.threshold

\* ReceiveFirstValidPartialSigs::finish
SStoreFinish(store) ==
    IF ~SStoreWantsMore(store)
    THEN [ok |-> TRUE, msgs |-> store.msgs, err |-> ""]
    ELSE [ok |-> FALSE, msgs |-> <<>>, err |-> "NotEnoughMsgs"]

\* push_msg that does not verify the proof of the partial signature
SStorePushCheckMutNoProof(store, msg) ==
    IF msg.sender = store.i THEN "ReceivedMyOwnShare"
    ELSE IF msg.receiver # None THEN "ExpectedBroadcast"
    ELSE IF msg.sender \in store.received_from THEN "MsgOverwrite"
    ELSE IF ~(1 <= msg.body[1] /\ msg.body[1] <= store.secret_holders)
    THEN "PartyOriginalIndexOutOfRange"
    ELSE IF ~SStoreWantsMore(store) THEN "TooManyMsgs"
    ELSE IF msg.body[1] > Len(store.vk_vec) THEN "Panic"
    ELSE IF \E k \in DOMAIN store.msgs : store.msgs[k][1] = msg.body[1]
    THEN "ShareOverwrite"
    ELSE "Ok"

\* ReceiveFirstValidPartialSigs::push_msg: the error, or "Ok"; the body of a
\* message is the pair <<keygen index, partial signature>>
SStorePushCheck(store, msg) ==
    IF msg.sender = store.i THEN "ReceivedMyOwnShare"
    ELSE IF msg.receiver # None THEN "ExpectedBroadcast"
    ELSE IF msg.sender \in store.received_from THEN "MsgOverwrite"
    ELSE IF ~(1 <= msg.body[1] /\ msg.body[1] <= store.secret_holders)
    THEN "PartyOriginalIndexOutOfRange"
    ELSE IF ~SStoreWantsMore(store) THEN "TooManyMsgs"
    ELSE IF msg.body[1] > Len(store.vk_vec) THEN "Panic"
    ELSE IF ~VerifyPartialSig(store.H_x, msg.body[2], store.vk_vec[msg.body[1]])
    THEN "InvalidPartialSig"
    ELSE IF \E k \in DOMAIN store.msgs : store.msgs[k][1] = msg.body[1]
    THEN "ShareOverwrite"
    ELSE "Ok"

\* The error value with the number of signers in the place of the number
\* of key holders
SStoreErrMutSigners(store, msg, check, current_round) ==
    IF check = "PartyOriginalIndexOutOfRange"
    THEN [kind |-> "HandleMessage", detail |-> check,
          current_round |-> current_round, msg_round |-> 1,
          i |-> msg.body[1], n |-> store.signers_n]
    ELSE Error("HandleMessage", check, current_round, 1)

\* The error of a rejected push: PartyOriginalIndexOutOfRange carries the
\* index claimed (i) and the number of key holders (n), the others nothing
SStoreErr(store, msg, check, current_round) ==
    IF check = "PartyOriginalIndexOutOfRange"
    THEN [kind |-> "HandleMessage", detail |-> check,
          current_round |-> current_round, msg_round |-> 1,
          i |-> msg.body[1], n |-> store.secret_holders]
    ELSE Error("HandleMessage", check, current_round, 1)

\* The two pushes that end a successful push_msg
SStorePush(store, msg) ==
    [store EXCEPT !.msgs = Append(@, msg.body),
                  !.received_from = @ \cup {msg.sender}]

\* Round0::proceed that publishes the index of the signer in the signing run
SRound0ProceedMutSignerIndex(r, seed) ==
    Bind(PartialSign(r.key.shared_keys, r.message,
                     Sample(seed, r.key.i, DrawDdhNonce(r.key.t))), LAMBDA ps :
        IF ~ps.ok THEN [ok |-> FALSE, panic |-> TRUE, err |-> <<"assert", "ddh_proof.verify">>]
        ELSE [ok |-> TRUE,
              out |-> <<Msg(r.i, None, 1, <<r.i, ps.partial_sig>>)>>,
              next |-> [key |-> r.key, message |-> ps.H_x,
                        partial_sig |-> ps.partial_sig]])

\* Round0::proceed
SRound0Proceed(r, seed) ==
    Bind(PartialSign(r.key.shared_keys, r.message,
                     Sample(seed, r.key.i, DrawDdhNonce(r.key.t))), LAMBDA ps :
        IF ~ps.ok THEN [ok |-> FALSE, panic |-> TRUE, err |-> <<"assert", "ddh_proof.verify">>]
        ELSE [ok |-> TRUE,
              out |-> <<Msg(r.i, None, 1, <<r.key.i, ps.partial_sig>>)>>,
              next |-> [key |-> r.key, message |-> ps.H_x,
                        partial_sig |-> ps.partial_sig]])

\* Round1::proceed: input is what the store finished with, in arrival order
SRound1Proceed(r, input) ==
    LET all == Append(input, <<r.key.i, r.partial_sig>>)
        indexes == [k \in DOMAIN all |-> all[k][1]]
        sigs == [k \in DOMAIN all |-> all[k][2]]
        bad == {k \in DOMAIN indexes : indexes[k] = 0 \/ indexes[k] > r.key.n}
    IN  IF bad # {}
        THEN LET party_i == CHOOSE k \in bad : \A k2 \in bad : k <= k2
             IN  [ok |-> FALSE, panic |-> FALSE,
                  err |-> <<"PartySentOutOfRangeIndex",
                            [who |-> party_i, claimed_index |-> indexes[party_i]]>>]
        ELSE IF \E k \in DOMAIN indexes : indexes[k] > Len(r.key.vk_vec)
        THEN [ok |-> FALSE, panic |-> TRUE, err |-> <<"index", "vk_vec out of bounds">>]
        ELSE Bind(Combine(r.key.shared_keys.params,
                          [k \in DOMAIN indexes |-> r.key.vk_vec[indexes[k]]],
                          sigs, r.message,
                          [k \in DOMAIN indexes |-> indexes[k] - 1]), LAMBDA c :
                 IF c.result = "Ok"
                 THEN [ok |-> TRUE, out |-> <<>>,
                       next |-> [message |-> r.message, sigma |-> c.sigma]]
                 ELSE [ok |-> FALSE, panic |-> c.result = "Panic",
                       err |-> <<IF c.result = "Panic" THEN "combine"
                                 ELSE "PartialSignatureVerification", c.err>>])

\* ------------------------------------------------------------------------
\* The Sign state machine (threshold_bls/state_machine/sign.rs)
\* ------------------------------------------------------------------------

\* The state Sign::new builds when its checks pass, before its
\* proceed_round(false).  executed is the
\* list of the transitions run so far, failed tells that one of them did
\* not complete, and input1 keeps the keygen indexes Round1 was run on.
SignInit(message, i, n, local_key) ==
    [round |-> "Round0",
     st |-> [key |-> local_key, message |-> message, i |-> i, n |-> n],
     msgs1 |-> Some(SExpectsMessages(i, n, local_key, HashToCurve(message))),
     msgs_queue |-> <<>>,
     party_i |-> i, party_n |-> n,
     executed |-> <<>>, failed |-> FALSE, input1 |-> <<>>]

\* Sign::current_round
SCurrentRound(m) ==
    CASE m.round = "Round0" -> 0
      [] m.round = "Round1" -> 1
      [] OTHER -> 2

SStore1WantsMore(m) == IF IsSome(m.msgs1) THEN SStoreWantsMore(Unwrap(m.msgs1)) ELSE FALSE

\* Sign::proceed_round.  Both rounds are expensive.
RECURSIVE SProceedRound(_, _, _)

SAfterRound(m, k, res, may_block, seed) ==
    LET taken == IF k = 0 THEN m.msgs1 ELSE None
        input == IF k = 0 THEN <<>>
                 ELSE [j \in DOMAIN Unwrap(m.msgs1).msgs |-> Unwrap(m.msgs1).msgs[j][1]]
    IN  IF res.ok
        THEN Bind([m EXCEPT !.round = IF k = 0 THEN "Round1" ELSE "Final",
                            !.st = res.next,
                            !.msgs1 = taken,
                            !.msgs_queue = @ \o res.out,
                            !.executed = Append(@, k),
                            !.input1 = input],
                  LAMBDA m2 : SProceedRound(m2, may_block, seed))
        ELSE [m |-> [m EXCEPT !.round = "Gone", !.st = None, !.msgs1 = taken,
                              !.executed = Append(@, k), !.failed = TRUE,
                              !.input1 = input],
              ret |-> Ret("proceed", IF res.panic THEN "Panic" ELSE "Err",
                          Error(res.err[1], res.err[2], k, k), None)]

SProceedRound(m, may_block, seed) ==
    CASE m.round = "Round0" /\ may_block ->
             Bind(SRound0Proceed(m.st, seed),
                  LAMBDA res : SAfterRound(m, 0, res, may_block, seed))
      [] m.round = "Round1" /\ ~SStore1WantsMore(m) /\ may_block ->
             IF m.msgs1 = None
             THEN [m |-> [m EXCEPT !.round = "Gone", !.st = None, !.failed = TRUE],
                   ret |-> Ret("proceed", "Err", Error("StoreGone", "", 1, 1), None)]
             ELSE IF ~SStoreFinish(Unwrap(m.msgs1)).ok
             THEN [m |-> [m EXCEPT !.round = "Gone", !.st = None, !.msgs1 = None,
                                   !.failed = TRUE],
                   ret |-> Ret("proceed", "Err",
                               Error("RetrieveRoundMessages",
                                     SStoreFinish(Unwrap(m.msgs1)).err, 1, 1), None)]
             ELSE Bind(SRound1Proceed(m.st, SStoreFinish(Unwrap(m.msgs1)).msgs),
                       LAMBDA res : SAfterRound(m, 1, res, may_block, seed))
      [] OTHER -> [m |-> m, ret |-> Ret("proceed", "Ok", NoError, None)]

\* Sign::handle_incoming
SHandleIncoming(m, msg, seed) ==
    LET current_round == SCurrentRound(m)
    IN  IF m.msgs1 = None
        THEN [m |-> m,
              ret |-> Ret("handle_incoming", "Err",
                          Error("ReceivedOutOfOrderMessage", "", current_round, 1), None)]
        ELSE LET check == SStorePushCheck(Unwrap(m.msgs1), msg)
             IN  IF check = "Panic"
                 THEN [m |-> m,
                       ret |-> Ret("handle_incoming", "Panic",
                                   Error("index", "vk_vec out of bounds", current_round, 1), None)]
                 ELSE IF check # "Ok"
                 THEN [m |-> m,
                       ret |-> Ret("handle_incoming", "Err",
                                   SStoreErr(Unwrap(m.msgs1), msg, check,
                                             current_round), None)]
                 ELSE Bind([m EXCEPT !.msgs1 = Some(SStorePush(Unwrap(@), msg))],
                           LAMBDA m2 :
                               Bind(SProceedRound(m2, FALSE, seed),
                                    LAMBDA r : [m |-> r.m,
                                                ret |-> [r.ret EXCEPT !.call = "handle_incoming"]]))

\* Sign::wants_to_proceed
SWantsToProceed(m) ==
    CASE m.round = "Round0" -> TRUE
      [] m.round = "Round1" -> ~SStore1WantsMore(m)
      [] OTHER -> FALSE

\* Sign::proceed
SProceed(m, seed) == SProceedRound(m, TRUE, seed)

\* The machine Sign::new returns: state.proceed_round(false)?; Ok(state)
SignBuilt(message, i, n, local_key, seed) ==
    SProceedRound(SignInit(message, i, n, local_key), FALSE, seed).m

\* Sign::is_finished
SIsFinished(m) == m.round = "Final"

\* Sign::pick_output
SPickOutput(m) ==
    CASE m.round = "Final" ->
             [m |-> [m EXCEPT !.round = "Gone", !.st = None],
              ret |-> Ret("pick_output", "SomeOk", NoError, Some(m.st))]
      [] m.round = "Gone" ->
             [m |-> m, ret |-> Ret("pick_output", "SomeErr", Error("DoublePickResult", "", 0, 0), None)]
      [] OTHER -> [m |-> m, ret |-> Ret("pick_output", "None", NoError, None)]

\* ------------------------------------------------------------------------
\* The key set of an honest Keygen run with parameters (t, n) and the given
\* seed, computed from the parties' primitives
\* ------------------------------------------------------------------------

\* The shares party j deals in Keys::phase1_verify_com_phase2_distribute
HonestVss(t, n, seed, j) ==
    VssShare(t, n, Sample(seed, j, 0), [k \in 1 .. t |-> Sample(seed, j, k)])

\* sk_i of party p: the sum of the shares dealt to it
HonestSk(t, n, seed, p) ==
    Phase2SumShares([j \in 1 .. n |-> HonestVss(t, n, seed, j).shares[p]])

\* LocalKey of party p (LocalKey fields of keygen/rounds.rs)
HonestLocalKey(t, n, seed, p) ==
    [shared_keys |-> [index |-> p - 1,
                      params |-> [threshold |-> t, share_count |-> n],
                      vk |-> SumSeq([j \in 1 .. n |-> G2Mul(Sample(seed, j, 0))]),
                      sk_i |-> HonestSk(t, n, seed, p)],
     vk_vec |-> [j \in 1 .. n |-> G2Mul(HonestSk(t, n, seed, j))],
     i |-> p, t |-> t, n |-> n]

\* Every LocalKey an honest Keygen run produces is the one computed above
KeygenProducesHonestKey ==
    \A p \in KParties : KHasKey(p) =>
        KKey(p) = HonestLocalKey(kcfg.t, kcfg.n, kcfg.seed, p)

\* ------------------------------------------------------------------------
\* A signing run of n' honest signers holding keys of an honest Keygen run,
\* over a transport that delivers every broadcast to every other signer, in
\* any order
\* ------------------------------------------------------------------------

\* The messages to sign
Messages == {1, 2}

\* The lists of distinct keygen indexes of length t+1 .. n: signer k of the
\* list holds the key of party signers[k]
SignerLists(t, n) ==
    UNION {{s \in [1 .. k -> 1 .. n] : \A a, b \in 1 .. k : s[a] = s[b] => a = b}
           : k \in (t + 1) .. n}

SParties == DOMAIN sg

\* The variables of the other specifications stay at Unused in a signing run
SignRunIdle ==
    /\ ctor = Unused /\ kcfg = Unused /\ kg = Unused /\ kret = Unused
    /\ knet = Unused /\ cb = Unused /\ med = Unused

SignOnly == UNCHANGED <<ctorVars, keygenVars, combineVars, mediatorVars>>

SignRunInit ==
    /\ SignRunIdle
    /\ \E c \in KeygenParams, seed \in Seeds, message \in Messages :
           \E signers \in SignerLists(c[1], c[2]) :
               /\ scfg = [t |-> c[1], n |-> c[2], seed |-> seed,
                          message |-> message, signers |-> signers]
               /\ sg = [p \in DOMAIN signers |->
                           SignBuilt(message, p, Len(signers),
                                     HonestLocalKey(c[1], c[2], seed, signers[p]),
                                     seed)]
               /\ sret = [p \in DOMAIN signers |-> NoCall]
    /\ snet = {}

\* The outcome r of a call on signer p becomes the state
SApply(p, r) ==
    /\ sg' = [sg EXCEPT ![p] = r.m]
    /\ sret' = [sret EXCEPT ![p] = [r.ret EXCEPT !.ran = Len(r.m.executed)
                                                    - Len(sg[p].executed)]]
    /\ UNCHANGED scfg

SSent(p, r) == Deliveries(r.m.msgs_queue, Len(sg[p].msgs_queue), Len(scfg.signers))

\* The transport hands a broadcast to a signer: handle_incoming
SDeliver ==
    \E d \in snet :
        \E r \in {SHandleIncoming(sg[d.to], d.msg, scfg.seed)} :
            /\ SApply(d.to, r)
            /\ snet' = (snet \ {d}) \cup SSent(d.to, r)
            /\ SignOnly

\* The driver calls proceed() when wants_to_proceed()
SDriverProceed(p) ==
    /\ SWantsToProceed(sg[p])
    /\ \E r \in {SProceed(sg[p], scfg.seed)} :
           /\ SApply(p, r)
           /\ snet' = snet \cup SSent(p, r)
           /\ SignOnly

\* The driver picks the output of a finished machine
SDriverPickOutput(p) ==
    /\ SIsFinished(sg[p])
    /\ \E r \in {SPickOutput(sg[p])} : SApply(p, r)
    /\ UNCHANGED snet
    /\ SignOnly

SignRunNext ==
    \/ SDeliver
    \/ \E p \in SParties : SDriverProceed(p)
    \/ \E p \in SParties : SDriverPickOutput(p)

SpecSign == SignRunInit /\ [][SignRunNext]_vars

\* The transport delivers every broadcast and the driver calls proceed()
\* whenever the machine wants to.  The second conjunct is weak fairness of
\* SDriverProceed(p), with its enabling condition written out.
SpecSignFair ==
    /\ SpecSign
    /\ WF_vars(SDeliver)
    /\ \A p \in 1 .. 3 :
           \/ []<>(~(p \in SParties /\ SWantsToProceed(sg[p])))
           \/ []<><<p \in SParties /\ SDriverProceed(p)>>_vars

\* ------------------------------------------------------------------------
\* Properties of an all-honest signing run
\* ------------------------------------------------------------------------

\* The output signer p's machine has produced: the Final state, or the
\* output the last call picked.
SOutput(p) ==
    IF sg[p].round = "Final" THEN Some(sg[p].st)
    ELSE IF sret[p].result = "SomeOk" THEN sret[p].val
    ELSE None

SHasOutput(p) == IsSome(SOutput(p))

SSigma(p) == Unwrap(SOutput(p)).sigma

\* The group key of the run
SGroupKey == HonestLocalKey(scfg.t, scfg.n, scfg.seed, 1).shared_keys.vk

\* C6: for every honest key set (t, n), every list of n' signers with
\* t+1 <= n' <= n and every delivery order of the round-1 broadcasts, every
\* signer that yields an output yields the same signature sigma, and
\* e(hash_to_curve(m), vk) = e(sigma, g2).
C6_SignersAgreeOnValidSignature ==
    \A p \in SParties : SHasOutput(p) =>
        /\ BlsVerify(SSigma(p), scfg.message, SGroupKey)
        /\ Unwrap(SOutput(p)).message = HashToCurve(scfg.message)
        /\ \A q \in SParties : SHasOutput(q) => SSigma(q) = SSigma(p)

\* Three signers of a (1, 3) key all hold an output, each combined from
\* its own partial signature and the first one it received
C6_Witness ==
    /\ scfg.t = 1 /\ Len(scfg.signers) = 3
    /\ \A p \in SParties : SHasOutput(p)
    /\ \E p \in SParties :
           Range(sg[p].input1) \cup {scfg.signers[p]} # Range(scfg.signers)

SNoCallFailed == \A p \in SParties : sret[p].result \notin {"Err", "Panic"}

\* C7: in an all-honest signing run with n' signers, t+1 <= n' <= n (in
\* particular n' > t+1), under every delivery order and with the driver
\* calling proceed() whenever wants_to_proceed(), every signer eventually
\* reaches is_finished() = true and no handle_incoming or proceed call
\* returns an error.
C7_SignTerminatesWithoutError ==
    /\ \A p \in 1 .. 3 : <>(p \in SParties => SIsFinished(sg[p]))
    /\ []SNoCallFailed

\* What the code does with n' > t+1: a signer whose store already holds t
\* partial signatures is handed one more broadcast and handle_incoming
\* returns an error: TooManyMsgs from the store, or
\* ReceivedOutOfOrderMessage once Round1 has taken the store.
C7_SurplusBroadcastRejected ==
    /\ Len(scfg.signers) > scfg.t + 1
    /\ \E p \in SParties :
           /\ sret[p].call = "handle_incoming"
           /\ sret[p].result = "Err"
           /\ \/ sret[p].err.kind = "HandleMessage" /\ sret[p].err.detail = "TooManyMsgs"
              \/ sret[p].err.kind = "ReceivedOutOfOrderMessage"

\* With exactly t+1 signers no call of the run returns an error
SignExactQuorumNoError == Len(scfg.signers) = scfg.t + 1 => SNoCallFailed

\* ------------------------------------------------------------------------
\* Calls of SharedKeys::combine on honest partial signatures, as fn sign of
\* threshold_bls/test.rs makes them: signatory k of the list s signs with
\* the key of party s[k], and vk_vec and partial_sigs_vec follow the list
\* ------------------------------------------------------------------------

\* (t, n) of the key sets: those of the Keygen runs and a 3-of-4 key
CombineParams == KeygenParams \cup {<<2, 4>>}

CombineIdle ==
    /\ ctor = Unused /\ med = Unused
    /\ kcfg = Unused /\ kg = Unused /\ kret = Unused /\ knet = Unused
    /\ scfg = Unused /\ sg = Unused /\ sret = Unused /\ snet = Unused

CombineOnly == UNCHANGED <<ctorVars, keygenVars, signVars, mediatorVars>>

NoCombine == [s |-> <<>>, ret |-> CombineResult("none", "", 0)]

CombineInit ==
    /\ CombineIdle
    /\ \E c \in CombineParams, seed \in Seeds, message \in Messages :
           cb = [t |-> c[1], n |-> c[2], seed |-> seed, message |-> message,
                 keys |-> [p \in 1 .. c[2] |-> HonestLocalKey(c[1], c[2], seed, p)],
                 prev |-> {}, call |-> NoCombine, sigmas |-> {}]

\* combine as the first signatory of the list s (keygen indexes) calls it
CombineOf(s) ==
    LET signed == [k \in DOMAIN s |->
                      PartialSign(cb.keys[s[k]].shared_keys, cb.message,
                                  Sample(cb.seed, s[k], DrawDdhNonce(cb.t)))]
    IN  Combine(cb.keys[s[1]].shared_keys.params,
                [k \in DOMAIN s |-> cb.keys[s[1]].vk_vec[s[k]]],
                [k \in DOMAIN s |-> signed[k].partial_sig],
                signed[1].H_x,
                [k \in DOMAIN s |-> s[k] - 1])

\* One more call.  The state keeps the call, the set of parties of the
\* call before it and every signature returned so far.
CallCombine ==
    \E s \in SignerLists(cb.t, cb.n) :
        \E r \in {CombineOf(s)} :
            /\ cb' = [cb EXCEPT !.prev = Range(cb.call.s),
                                !.call = [s |-> s, ret |-> r],
                                !.sigmas = IF r.result = "Ok" THEN @ \cup {r.sigma} ELSE @]
            /\ CombineOnly

CombineNext == CallCombine

SpecCombine == CombineInit /\ [][CombineNext]_vars

\* C8: SharedKeys::combine gives the same signature for any two index sets
\* S, S' of size >= t+1 of honest partial signatures on the same message
\* and for any order of listing them: the result depends only on the
\* message and the shared key (it is the signature that verifies under vk).
C8_CombineIndependentOfSigners ==
    /\ cb.call.s # <<>> =>
           /\ cb.call.ret.result = "Ok"
           /\ BlsVerify(cb.call.ret.sigma, cb.message, cb.keys[1].shared_keys.vk)
    /\ Cardinality(cb.sigmas) <= 1

\* Two calls on a 3-of-4 key: one with parties 2, 3, 4, then one with all
\* four parties listed out of order
C8_Witness ==
    /\ cb.n = 4
    /\ cb.prev = {2, 3, 4}
    /\ Len(cb.call.s) = 4 /\ cb.call.s[1] > cb.call.s[2]
    /\ cb.call.ret.result = "Ok" /\ cb.sigmas # {}

\* ------------------------------------------------------------------------
\* One machine under any sequence of handle_incoming, proceed and
\* pick_output calls.  The messages handed to it are those its honest peers
\* send in a run with the same parameters, corrupted ones from one peer, and
\* misaddressed ones.
\* ------------------------------------------------------------------------

\* The body of the round-k message honest party j sends (to party to, for
\* the P2P round 3) in a Keygen run
HonestKeygenBody(t, n, seed, j, k, to) ==
    LET bc == Phase1Broadcast(Phase1Create(j - 1, Sample(seed, j, 0)),
                              Sample(seed, j, DrawBlind(t)))
    IN  CASE k = 1 -> bc.comm
          [] k = 2 -> bc.decom
          [] k = 3 -> [vss |-> HonestVss(t, n, seed, j).scheme,
                       share |-> HonestVss(t, n, seed, j).shares[to]]
          [] OTHER -> DLogProve(HonestSk(t, n, seed, j), Sample(seed, j, DrawNonce(t)))

\* Every message an honest Keygen run puts on the transport is the one
\* computed above
KeygenSendsHonestBodies ==
    \A d \in knet :
        d.msg.body = HonestKeygenBody(kcfg.t, kcfg.n, kcfg.seed, d.msg.sender,
                                      d.msg.round, d.to)

\* A body of round 2, 3 or 4 that fails the check of the round that reads it
CorruptKeygenBody(body, k) ==
    CASE k = 2 -> [body EXCEPT !.y_i = Add(@, 1)]
      [] k = 3 -> [body EXCEPT !.share = Add(@, 1)]
      [] OTHER -> [body EXCEPT !.challenge_response = Add(@, 1)]

\* The peer that may send corrupted messages to party me
BadPeer(me) == IF me = 1 THEN 2 ELSE 1

\* The receiver field of a well-addressed round-k Keygen message to me
KReceiver(k, me) == IF k = 3 THEN Some(me) ELSE None

\* The messages the environment may hand to the Keygen machine of party me
KEnvMsgs(t, n, seed, me) ==
    LET honest(j, k) == HonestKeygenBody(t, n, seed, j, k, me)
        b == BadPeer(me)
    IN  {Msg(j, KReceiver(k, me), k, honest(j, k)) : j \in Others(me, n), k \in 1 .. 4}
        \cup {Msg(b, KReceiver(k, me), k, CorruptKeygenBody(honest(b, k), k)) : k \in 2 .. 4}
        \cup {Msg(me, None, 1, honest(me, 1)),
              Msg(b, None, 3, honest(b, 3))}

\* The partial signature honest signer j of the list broadcasts
HonestSignBody(t, n, seed, message, signers, j) ==
    <<signers[j],
      PartialSign(HonestLocalKey(t, n, seed, signers[j]).shared_keys, message,
                  Sample(seed, signers[j], DrawDdhNonce(t))).partial_sig>>

\* The messages the environment may hand to the Sign machine of signer me:
\* the honest broadcasts, one with a wrong sigma_i, ones claiming an index
\* out of range or the index of another signer, and misaddressed ones
SEnvMsgs(t, n, seed, message, signers, me) ==
    LET honest(j) == HonestSignBody(t, n, seed, message, signers, j)
        b == BadPeer(me)
        ns == Len(signers)
    IN  {Msg(j, None, 1, honest(j)) : j \in Others(me, ns)}
        \cup {Msg(b, None, 1, honest(j)) : j \in 1 .. ns}
        \cup {Msg(b, None, 1, <<honest(b)[1],
                                [honest(b)[2] EXCEPT !.sigma_i = Add(@, 1)]>>),
              Msg(b, None, 1, <<0, honest(b)[2]>>),
              Msg(b, None, 1, <<n + 1, honest(b)[2]>>),
              Msg(b, Some(me), 1, honest(b)),
              Msg(me, None, 1, honest(me)),
              Msg(ns + 1, None, 1, honest(b))}

\* (t, n) of the Keygen machine under the calls; it is the first or the
\* last party
CallsParams == {<<1, 2>>, <<2, 3>>}

CallsInitKeygen ==
    /\ scfg = Unused /\ sg = Unused /\ sret = Unused /\ snet = {}
    /\ \E c \in CallsParams, seed \in Seeds :
           \E me \in {1, c[2]} :
               /\ kcfg = [t |-> c[1], n |-> c[2], seed |-> seed, me |-> me]
               /\ kg = [p \in {me} |-> KeygenBuilt(me, c[1], c[2], seed)]
               /\ kret = [p \in {me} |-> NoCall]
               /\ knet = KEnvMsgs(c[1], c[2], seed, me)

CallsInitSign ==
    /\ kcfg = Unused /\ kg = Unused /\ kret = Unused /\ knet = {}
    /\ \E c \in KeygenParams, seed \in Seeds, message \in Messages :
           \E signers \in SignerLists(c[1], c[2]) :
               \E me \in DOMAIN signers :
                   /\ scfg = [t |-> c[1], n |-> c[2], seed |-> seed,
                              message |-> message, signers |-> signers, me |-> me]
                   /\ sg = [p \in {me} |->
                               SignBuilt(message, me, Len(signers),
                                         HonestLocalKey(c[1], c[2], seed, signers[me]),
                                         seed)]
                   /\ sret = [p \in {me} |-> NoCall]
                   /\ snet = SEnvMsgs(c[1], c[2], seed, message, signers, me)

\* Either a Keygen machine or a Sign machine is under the calls; knet
\* (snet) holds the messages the environment may hand to it, any number
\* of times.
CallsInit ==
    /\ ctor = Unused /\ cb = Unused /\ med = Unused
    /\ CallsInitKeygen \/ CallsInitSign

\* A call that panicked ended the calls on the machine
KAlive(p) == kret[p].result # "Panic"

SAlive(p) == sret[p].result # "Panic"

KCallHandleIncoming ==
    \E p \in KParties, msg \in knet :
        /\ KAlive(p)
        /\ \E r \in {KHandleIncoming(kg[p], msg, kcfg.seed)} :
               KApply(p, r) /\ UNCHANGED knet /\ KeygenOnly

KCallProceed ==
    \E p \in KParties :
        /\ KAlive(p)
        /\ \E r \in {KProceed(kg[p], kcfg.seed)} :
               KApply(p, r) /\ UNCHANGED knet /\ KeygenOnly

KCallPickOutput ==
    \E p \in KParties :
        /\ KAlive(p)
        /\ \E r \in {KPickOutput(kg[p])} :
               KApply(p, r) /\ UNCHANGED knet /\ KeygenOnly

SCallHandleIncoming ==
    \E p \in SParties, msg \in snet :
        /\ SAlive(p)
        /\ \E r \in {SHandleIncoming(sg[p], msg, scfg.seed)} :
               SApply(p, r) /\ UNCHANGED snet /\ SignOnly

SCallProceed ==
    \E p \in SParties :
        /\ SAlive(p)
        /\ \E r \in {SProceed(sg[p], scfg.seed)} :
               SApply(p, r) /\ UNCHANGED snet /\ SignOnly

SCallPickOutput ==
    \E p \in SParties :
        /\ SAlive(p)
        /\ \E r \in {SPickOutput(sg[p])} :
               SApply(p, r) /\ UNCHANGED snet /\ SignOnly

CallsNext ==
    \/ KCallHandleIncoming
    \/ KCallProceed
    \/ KCallPickOutput
    \/ SCallHandleIncoming
    \/ SCallProceed
    \/ SCallPickOutput

SpecCalls == CallsInit /\ [][CallsNext]_vars

\* ------------------------------------------------------------------------
\* Properties of a machine under any sequence of calls
\* ------------------------------------------------------------------------

\* The machine has reached Final: every round transition ran and none failed
KReachedFinal(m) == Len(m.executed) = 5 /\ ~m.failed

SReachedFinal(m) == Len(m.executed) = 2 /\ ~m.failed

\* The step is a pick_output call on party p that shows in the state
KPickStep(p) == kret'[p].call = "pick_output" /\ <<kg[p], kret[p]>>' # <<kg[p], kret[p]>>

SPickStep(p) == sret'[p].call = "pick_output" /\ <<sg[p], sret[p]>>' # <<sg[p], sret[p]>>

\* pick_output on a machine in state m returned ret and left m2
PickOutputContract(reached, m, ret, m2) ==
    /\ ~reached => ret.result = "None" /\ m2 = m
    /\ m.round = "Final" => ret.result = "SomeOk" /\ ret.val = Some(m.st)
    /\ (reached /\ m.round # "Final") =>
           ret.result = "SomeErr" /\ ret.err.kind = "DoublePickResult"

\* C9: pick_output() of Keygen and of Sign returns None and changes nothing
\* while the machine has not reached Final; the first call after Final
\* returns Some(Ok(output)); every later call returns
\* Some(Err(DoublePickResult)).
C9_PickOutputContract ==
    [][/\ \A p \in KParties : KPickStep(p) =>
              PickOutputContract(KReachedFinal(kg[p]), kg[p], kret'[p], kg'[p])
       /\ \A p \in SParties : SPickStep(p) =>
              PickOutputContract(SReachedFinal(sg[p]), sg[p], sret'[p], sg'[p])]_vars

\* What the code does: a Keygen machine whose round transition failed never
\* reached Final and was never picked, and pick_output returns
\* Some(Err(DoublePickResult))
C9_DoublePickWithoutPick ==
    \E p \in KParties :
        /\ kg[p].failed /\ ~KReachedFinal(kg[p])
        /\ kret[p].call = "pick_output"
        /\ kret[p].result = "SomeErr" /\ kret[p].err.kind = "DoublePickResult"

\* The contract holds on every machine none of whose transitions failed
PickOutputContractUnlessFailed ==
    [][/\ \A p \in KParties : (KPickStep(p) /\ ~kg[p].failed) =>
              PickOutputContract(KReachedFinal(kg[p]), kg[p], kret'[p], kg'[p])
       /\ \A p \in SParties : (SPickStep(p) /\ ~sg[p].failed) =>
              PickOutputContract(SReachedFinal(sg[p]), sg[p], sret'[p], sg'[p])]_vars

IsPrefix(a, b) == Len(a) <= Len(b) /\ SubSeq(b, 1, Len(a)) = a

\* One step of a machine keeps the order of the rounds: current is
\* current_round() and all the list of the round transitions, in order
RoundsInOrder(m, m2, current, current2, all) ==
    /\ current2 >= current
    /\ IsPrefix(m.executed, m2.executed)
    /\ IsPrefix(m2.executed, all)
    /\ m2.round # "Gone" => Len(m2.executed) = current2

\* C10: over any sequence of handle_incoming, proceed and pick_output calls
\* current_round() of a Keygen (Sign) machine never decreases and the round
\* transitions run in the order R0, R1, R2, R3, R4 (R0, R1), none skipped
\* and none before its predecessor, also when one call runs several.
C10_RoundsInOrder ==
    [][/\ \A p \in KParties :
              RoundsInOrder(kg[p], kg'[p], KCurrentRound(kg[p]), KCurrentRound(kg'[p]),
                            <<0, 1, 2, 3, 4>>)
       /\ \A p \in SParties :
              RoundsInOrder(sg[p], sg'[p], SCurrentRound(sg[p]), SCurrentRound(sg'[p]),
                            <<0, 1>>)]_vars

\* One proceed() call on a Keygen machine whose four stores were full ran
\* all five transitions and reached Final
C10_Witness ==
    \E p \in KParties :
        /\ kret[p].call = "proceed" /\ kret[p].ran = 5
        /\ kg[p].round = "Final"

\* ------------------------------------------------------------------------
\* A Keygen machine handed well-formed and misrouted messages of every
\* round, at any time
\* ------------------------------------------------------------------------

\* The receiver field a round-k store does not take: addressed in a
\* broadcast round, not addressed in the P2P round
KWrongReceiver(k, me) == IF k = 3 THEN None ELSE Some(me)

\* The messages the environment may hand to the Keygen machine of party me:
\* those of the honest peers, and ones whose sender is me, 0 or n + 1, whose
\* direction does not fit the round, or that are addressed to another party
KRoutedMsgs(t, n, seed, me) ==
    LET honest(j, k) == HonestKeygenBody(t, n, seed, j, k, me)
        b == BadPeer(me)
    IN  {Msg(j, KReceiver(k, me), k, honest(j, k)) : j \in Others(me, n), k \in 1 .. 4}
        \cup {Msg(me, KReceiver(k, me), k, honest(b, k)) : k \in 1 .. 4}
        \cup {Msg(j, KReceiver(k, me), k, honest(b, k)) : j \in {0, n + 1}, k \in {1, 3}}
        \cup {Msg(b, KWrongReceiver(k, me), k, honest(b, k)) : k \in 1 .. 4}
        \cup {Msg(b, Some(b), 3, honest(b, 3))}

RoutedInit ==
    /\ ctor = Unused /\ cb = Unused /\ med = Unused
    /\ scfg = Unused /\ sg = Unused /\ sret = Unused /\ snet = {}
    /\ \E c \in CallsParams, seed \in Seeds :
           \E me \in {1, c[2]} :
               /\ kcfg = [t |-> c[1], n |-> c[2], seed |-> seed, me |-> me]
               /\ kg = [p \in {me} |-> KeygenBuilt(me, c[1], c[2], seed)]
               /\ kret = [p \in {me} |-> NoCall]
               /\ knet = KRoutedMsgs(c[1], c[2], seed, me)

\* handle_incoming(msg); the call's argument is kept with what it returned
KRoutedHandleIncoming ==
    \E p \in KParties, msg \in knet :
        /\ KAlive(p)
        /\ \E r \in {WithArg(KHandleIncoming(kg[p], msg, kcfg.seed), msg)} :
               KApply(p, r) /\ UNCHANGED knet /\ KeygenOnly

RoutedNext ==
    \/ KRoutedHandleIncoming
    \/ KCallProceed
    \/ KCallPickOutput

SpecRouted == RoutedInit /\ [][RoutedNext]_vars

\* ------------------------------------------------------------------------
\* Properties of Keygen::handle_incoming
\* ------------------------------------------------------------------------

\* The step is the call handle_incoming(msg) on party p
KHandleStep(p, msg) ==
    kret'[p].call = "handle_incoming" /\ kret'[p].arg = Some(msg)

\* msg comes from a peer and is addressed as its round asks
KWellRouted(m, msg) ==
    /\ msg.sender \in Others(m.party_i, m.party_n)
    /\ msg.receiver = KReceiver(msg.round, m.party_i)

\* msg is well routed and store k of m holds nothing from its sender yet
KFreshFromPeer(m, msg) ==
    /\ KWellRouted(m, msg)
    /\ IsSome(m.msgs[msg.round])
    /\ Unwrap(m.msgs[msg.round]).msgs[msg.sender] = None

\* Store k of m holds the body of msg under its sender
KStored(m, msg) ==
    /\ IsSome(m.msgs[msg.round])
    /\ msg.sender \in DOMAIN Unwrap(m.msgs[msg.round]).msgs
    /\ Unwrap(m.msgs[msg.round]).msgs[msg.sender] = Some(msg.body)

\* C11 as stated: handle_incoming of a round-k message of a peer while
\* current_round() is not k, before or after round k, returns
\* ReceivedOutOfOrderMessage{current_round, msg_round: k} and stores nothing.
C11_WrongRoundRejected ==
    [][\A p \in KParties, msg \in knet :
           (/\ KHandleStep(p, msg)
            /\ KWellRouted(kg[p], msg)
            /\ KCurrentRound(kg[p]) # msg.round) =>
               /\ kret'[p].result = "Err"
               /\ kret'[p].err = Error("ReceivedOutOfOrderMessage", "",
                                       KCurrentRound(kg[p]), msg.round)
               /\ kg'[p] = kg[p]]_vars

\* C11 amended: handle_incoming of a round-k message returns
\* ReceivedOutOfOrderMessage{current_round, msg_round: k}, and stores
\* nothing, exactly when the transition of round k has already run; a
\* round-k message of a peer that arrives before the machine reaches round k
\* is accepted and kept in the store of round k.
C11_PastRoundRejectedFutureStored ==
    [][\A p \in KParties, msg \in knet :
           KHandleStep(p, msg) =>
               /\ (msg.round \in Range(kg[p].executed)) <=>
                      (kret'[p].err.kind = "ReceivedOutOfOrderMessage")
               /\ kret'[p].err.kind = "ReceivedOutOfOrderMessage" =>
                      /\ kret'[p].result = "Err"
                      /\ kret'[p].err.current_round = KCurrentRound(kg[p])
                      /\ kret'[p].err.msg_round = msg.round
                      /\ kg'[p] = kg[p]
               /\ (KCurrentRound(kg[p]) < msg.round /\ KFreshFromPeer(kg[p], msg)) =>
                      /\ kret'[p].result = "Ok"
                      /\ KStored(kg'[p], msg)]_vars

\* A message of a round the machine has not reached was taken and is kept
C11_Witness ==
    \E p \in KParties :
        /\ kret[p].call = "handle_incoming" /\ kret[p].result = "Ok"
        /\ IsSome(kret[p].arg)
        /\ KCurrentRound(kg[p]) < Unwrap(kret[p].arg).round
        /\ KStored(kg[p], Unwrap(kret[p].arg))

\* The senders store k of m holds a message of
KStoredSenders(m, k) ==
    {j \in DOMAIN Unwrap(m.msgs[k]).msgs : Unwrap(m.msgs[k]).msgs[j] # None}

\* A round store must refuse msg: its sender is the party itself, is not a
\* party, or has a message in the store, or its direction or address does
\* not fit the round
KMustRefuse(m, msg) ==
    \/ msg.sender \notin Others(m.party_i, m.party_n)
    \/ msg.receiver # KReceiver(msg.round, m.party_i)
    \/ msg.sender \in KStoredSenders(m, msg.round)

\* C12: each Keygen round store of party i takes at most one message of each
\* sender j in [1, n], j # i; it refuses, and stays as it was, on a second
\* message of a sender, a sender that is i or outside [1, n], a P2P message
\* in a broadcast round (1, 2, 4), and in the P2P round (3) a broadcast or a
\* message addressed to another party; it stops wanting more exactly when
\* it holds n - 1 messages.
C12_StoreAdmission ==
    [][\A p \in KParties :
           /\ \A k \in 1 .. 4 :
                  IsSome(kg[p].msgs[k]) =>
                      /\ KStoredSenders(kg[p], k) \subseteq Others(p, kg[p].party_n)
                      /\ KStoreWantsMore(kg[p], k) <=>
                             (Cardinality(KStoredSenders(kg[p], k)) # kg[p].party_n - 1)
           /\ \A msg \in knet :
                  (KHandleStep(p, msg) /\ IsSome(kg[p].msgs[msg.round])) =>
                      IF KMustRefuse(kg[p], msg)
                      THEN /\ kret'[p].result = "Err"
                           /\ kret'[p].err.kind = "HandleMessage"
                           /\ kg'[p] = kg[p]
                      ELSE /\ kret'[p].result = "Ok"
                           /\ \/ kg'[p].msgs[msg.round] = None
                              \/ Unwrap(kg'[p].msgs[msg.round]).msgs =
                                     [Unwrap(kg[p].msgs[msg.round]).msgs
                                          EXCEPT ![msg.sender] = Some(msg.body)]]_vars

\* A second message of a sender whose first is in the store was refused
C12_Witness ==
    \E p \in KParties :
        /\ kret[p].call = "handle_incoming" /\ kret[p].result = "Err"
        /\ kret[p].err.detail = "MsgOverwrite"
        /\ IsSome(kret[p].arg)
        /\ KStored(kg[p], Unwrap(kret[p].arg))

\* ------------------------------------------------------------------------
\* SharedKeys::combine on lists of any length, with a partial signature
\* that may have been altered
\* ------------------------------------------------------------------------

\* The lists of distinct keygen indexes of length 0 .. n
AnySignerLists(n) ==
    UNION {{s \in [1 .. k -> 1 .. n] : \A a, b \in 1 .. k : s[a] = s[b] => a = b}
           : k \in 0 .. n}

\* The partial signature of party j, its sigma_i replaced when tampered
PartialSigOf(j, tampered) ==
    LET sig == PartialSign(cb.keys[j].shared_keys, cb.message,
                           Sample(cb.seed, j, DrawDdhNonce(cb.t))).partial_sig
    IN  IF tampered THEN [sig EXCEPT !.sigma_i = Add(@, 1)] ELSE sig

\* combine on the partial signatures of the parties of signers, the one at
\* position bad (if any) altered, with the index list cut to its first ls
\* entries
CombineOn(signers, ls, bad) ==
    Combine(cb.keys[1].shared_keys.params,
            [k \in DOMAIN signers |-> cb.keys[1].vk_vec[signers[k]]],
            [k \in DOMAIN signers |-> PartialSigOf(signers[k], k = bad)],
            HashToCurve(cb.message),
            [k \in 1 .. ls |-> signers[k] - 1])

\* The one call of a run
CallCombineOn ==
    /\ cb.call = NoCombine
    /\ \E signers \in AnySignerLists(cb.n) :
           \E ls \in 0 .. Len(signers), bad \in 0 .. Len(signers) :
               \E r \in {CombineOn(signers, ls, bad)} :
                   cb' = [cb EXCEPT !.call = [s |-> [k \in 1 .. ls |-> signers[k] - 1],
                                              ret |-> r, signers |-> signers,
                                              bad |-> bad]]
    /\ CombineOnly

CombineInputsNext == CallCombineOn

SpecCombineInputs == CombineInit /\ [][CombineInputsNext]_vars

\* combine was called
CombineCalled == cb.call # NoCombine

\* C13: combine called with fewer than t+1 partial signatures (0 to t of
\* them, exactly t included) or with an index list s shorter than t+1
\* returns Err(SigningMisMatchedVectors); it neither panics nor returns a
\* signature.  Stated for partial signatures that all verify.
C13_ShortInputIsMisMatchedVectors ==
    (/\ CombineCalled
     /\ cb.call.bad = 0
     /\ Len(cb.call.signers) < cb.t + 1 \/ Len(cb.call.s) < cb.t + 1) =>
        /\ cb.call.ret.result = "Err"
        /\ cb.call.ret.err = "SigningMisMatchedVectors"

\* What the code does on exactly t valid partial signatures: the length
\* check lets them through and the slice tail[0..t] panics
C13_ExactlyThresholdPanics ==
    /\ CombineCalled
    /\ cb.call.bad = 0
    /\ Len(cb.call.signers) = cb.t /\ Len(cb.call.s) = cb.t
    /\ cb.call.ret.result = "Panic"

\* Below t partial signatures or indexes the error is returned
CombineBelowThresholdIsError ==
    (/\ CombineCalled
     /\ Len(cb.call.signers) < cb.t \/ Len(cb.call.s) < cb.t) =>
        /\ cb.call.ret.result = "Err"
        /\ cb.call.ret.err = "SigningMisMatchedVectors"

\* C14: if a partial signature handed to combine does not verify against
\* the public share at its position (its sigma_i was replaced), combine
\* returns Err(PartialSignatureVerificationError) and no signature, also
\* when the bad one lies beyond the first t+1 entries, the ones the
\* interpolation would use.  Stated for lists of at least t+1 partial
\* signatures and indexes.
C14_TamperedPartialSigRejected ==
    (/\ CombineCalled
     /\ cb.call.bad # 0
     /\ Len(cb.call.signers) >= cb.t + 1 /\ Len(cb.call.s) >= cb.t + 1) =>
        /\ cb.call.ret.result = "Err"
        /\ cb.call.ret.err = "PartialSignatureVerificationError"

\* An altered partial signature behind the first t+1 was found
C14_Witness ==
    /\ CombineCalled
    /\ cb.call.bad > cb.t + 1 /\ Len(cb.call.s) >= cb.t + 1
    /\ cb.call.ret.result = "Err"
    /\ cb.call.ret.err = "PartialSignatureVerificationError"

\* ------------------------------------------------------------------------
\* Failure of Keygen round 2
\* ------------------------------------------------------------------------

\* The step ran the transition of round k of party p
KRanRound(p, k) ==
    k \notin Range(kg[p].executed) /\ k \in Range(kg'[p].executed)

\* The peers whose decommitment in store 2 of m is not the one that opens
\* the commitment they broadcast
KBadDecommitters(m, t, n, seed) ==
    IF m.msgs[2] = None THEN {}
    ELSE {j \in KStoredSenders(m, 2) :
              Unwrap(m.msgs[2]).msgs[j] # Some(HonestKeygenBody(t, n, seed, j, 2, m.party_i))}

\* The round-3 messages in the queue of m
KQueuedOfRound(m, k) == {i \in DOMAIN m.msgs_queue : m.msgs_queue[i].round = k}

\* Round 2 on a decommitment that does not open its commitment fails with
\* BadCommitment and enqueues nothing
KRound2FailsOnBadDecommitment(p) ==
    /\ kg'[p].failed /\ kg'[p].executed = <<0, 1, 2>>
    /\ kret'[p].result = "Err"
    /\ kret'[p].err.kind = "Round2VerifyCommitments"
    /\ kret'[p].err.detail = "KeyGenBadCommitment"
    /\ KQueuedOfRound(kg'[p], 3) = {}

\* C15: if party p broadcasts a decommitment that does not open its round-1
\* commitment, every honest party's Keygen fails when it executes round 2
\* with a BadCommitment error, enqueues no round-3 share message, and the
\* error value identifies p as the party to blame.
C15_BadDecommitmentBlamed ==
    [][\A p \in KParties :
           (/\ KRanRound(p, 2)
            /\ KBadDecommitters(kg[p], kcfg.t, kcfg.n, kcfg.seed) # {}) =>
               /\ KRound2FailsOnBadDecommitment(p)
               /\ ErrorBlames(kret'[p].err)
                      = KBadDecommitters(kg[p], kcfg.t, kcfg.n, kcfg.seed)]_vars

\* What the code does: round 2 failed on the decommitment of a peer and the
\* error value names nobody
C15_FailureNamesNobody ==
    \E p \in KParties :
        /\ kg[p].failed /\ kg[p].executed = <<0, 1, 2>>
        /\ kret[p].call = "proceed" /\ kret[p].result = "Err"
        /\ kret[p].err.detail = "KeyGenBadCommitment"
        /\ ErrorBlames(kret[p].err) = {}

\* Apart from the blame the claim holds
BadDecommitmentFailsRound2 ==
    [][\A p \in KParties :
           (/\ KRanRound(p, 2)
            /\ KBadDecommitters(kg[p], kcfg.t, kcfg.n, kcfg.seed) # {}) =>
               KRound2FailsOnBadDecommitment(p)]_vars

\* ------------------------------------------------------------------------
\* A Sign machine handed valid and invalid round-1 messages, at any time
\* ------------------------------------------------------------------------

SignRoutedInit ==
    /\ ctor = Unused /\ cb = Unused /\ med = Unused
    /\ CallsInitSign

\* handle_incoming(msg); the call's argument is kept with what it returned
SRoutedHandleIncoming ==
    \E p \in SParties, msg \in snet :
        /\ SAlive(p)
        /\ \E r \in {WithArg(SHandleIncoming(sg[p], msg, scfg.seed), msg)} :
               SApply(p, r) /\ UNCHANGED snet /\ SignOnly

SignRoutedNext ==
    \/ SRoutedHandleIncoming
    \/ SCallProceed
    \/ SCallPickOutput

SpecSignRouted == SignRoutedInit /\ [][SignRoutedNext]_vars

\* The step is the call handle_incoming(msg) on signer p
SHandleStep(p, msg) ==
    sret'[p].call = "handle_incoming" /\ sret'[p].arg = Some(msg)

\* The conditions under which the round-1 store of a signer may keep msg
SAdmissible(store, msg) ==
    /\ msg.sender # store.i
    /\ msg.receiver = None
    /\ msg.sender \notin store.received_from
    /\ msg.body[1] \in 1 .. store.secret_holders
    /\ Len(store.msgs) < store.threshold
    /\ VerifyPartialSig(store.H_x, msg.body[2], store.vk_vec[msg.body[1]])

\* C16: the round-1 store of signer i keeps a message only if its sender is
\* not i, it is a broadcast, nothing of that sender was stored before, the
\* keygen index it claims is in [1, key.n], the store is not complete and
\* its ECDDH proof verifies against vk_vec[claimed index - 1]; a push that
\* is rejected leaves the stored messages and the set of senders as they
\* were, so the sender of a rejected message can still be accepted later.
C16_SignStoreAdmission ==
    [][\A p \in SParties, msg \in snet :
           (SHandleStep(p, msg) /\ IsSome(sg[p].msgs1)) =>
               /\ sg'[p].msgs1 # sg[p].msgs1 =>
                      /\ SAdmissible(Unwrap(sg[p].msgs1), msg)
                      /\ sret'[p].result = "Ok"
                      /\ Unwrap(sg'[p].msgs1).msgs
                             = Append(Unwrap(sg[p].msgs1).msgs, msg.body)
                      /\ Unwrap(sg'[p].msgs1).received_from
                             = Unwrap(sg[p].msgs1).received_from \cup {msg.sender}
               /\ sret'[p].result # "Ok" => sg'[p] = sg[p]
               /\ (/\ msg.sender \notin Unwrap(sg[p].msgs1).received_from
                   /\ sret'[p].result # "Ok") =>
                      msg.sender \notin Unwrap(sg'[p].msgs1).received_from]_vars

\* A message with a partial signature that does not verify was rejected and
\* its sender is not among the senders of the store
C16_Witness ==
    \E p \in SParties :
        /\ sret[p].call = "handle_incoming" /\ sret[p].result = "Err"
        /\ sret[p].err.detail = "InvalidPartialSig"
        /\ IsSome(sret[p].arg) /\ IsSome(sg[p].msgs1)
        /\ Unwrap(sret[p].arg).sender \notin Unwrap(sg[p].msgs1).received_from

\* C17: a Sign machine in round 1 reports wants_to_proceed() = true as soon
\* as exactly t valid partial signatures of other signers are stored,
\* whatever the number of signers n' (also when n' > t+1); the store never
\* holds more than t messages, and finish() on a store that holds fewer
\* than t returns NotEnoughMsgs.
C17_SignStoreCompleteAtThreshold ==
    \A p \in SParties :
        IsSome(sg[p].msgs1) =>
            LET store == Unwrap(sg[p].msgs1)
            IN  /\ Len(store.msgs) <= scfg.t
                /\ \A k \in DOMAIN store.msgs :
                       VerifyPartialSig(store.H_x, store.msgs[k][2],
                                        store.vk_vec[store.msgs[k][1]])
                /\ sg[p].round = "Round1" =>
                       (SWantsToProceed(sg[p]) <=> Len(store.msgs) = scfg.t)
                /\ Len(store.msgs) < scfg.t =>
                       /\ ~SStoreFinish(store).ok
                       /\ SStoreFinish(store).err = "NotEnoughMsgs"
                /\ Len(store.msgs) = scfg.t =>
                       /\ SStoreFinish(store).ok
                       /\ SStoreFinish(store).msgs = store.msgs

\* With more signers than t+1, a machine in round 1 holds t partial
\* signatures and wants to proceed
C17_Witness ==
    \E p \in SParties :
        /\ Len(scfg.signers) > scfg.t + 1
        /\ sg[p].round = "Round1" /\ IsSome(sg[p].msgs1)
        /\ Len(Unwrap(sg[p].msgs1).msgs) = scfg.t
        /\ SWantsToProceed(sg[p])

\* msg is a broadcast of another signer, from whom the store of round 1 of m
\* holds nothing, that claims a keygen index outside [1, key.n]
SClaimsIndexOutOfRange(m, msg) ==
    /\ IsSome(m.msgs1)
    /\ msg.sender # m.party_i
    /\ msg.receiver = None
    /\ msg.sender \notin Unwrap(m.msgs1).received_from
    /\ msg.body[1] \notin 1 .. Unwrap(m.msgs1).secret_holders

KFailedByError(p) == kg[p].failed /\ KAlive(p)

SFailedByError(p) == sg[p].failed /\ SAlive(p)

\* What a step may do to a Keygen machine m whose round transition failed:
\* m2 and ret are the machine and the return value after the step
KStaysTerminal(m, m2, ret) ==
    /\ ~KWantsToProceed(m) /\ ~KIsFinished(m)
    /\ ~KWantsToProceed(m2) /\ ~KIsFinished(m2)
    /\ ret.call = "proceed" => (m2 = m /\ ret.result = "Ok")
    /\ m2.msgs_queue = m.msgs_queue
    /\ ret.result # "SomeOk"

SStaysTerminal(m, m2, ret) ==
    /\ ~SWantsToProceed(m) /\ ~SIsFinished(m)
    /\ ~SWantsToProceed(m2) /\ ~SIsFinished(m2)
    /\ ret.call = "proceed" => (m2 = m /\ ret.result = "Ok")
    /\ m2.msgs_queue = m.msgs_queue
    /\ ret.result # "SomeOk"

\* C19: after a round transition of Keygen or Sign fails with a
\* protocol-proceed error the machine is terminal: wants_to_proceed() and
\* is_finished() are false from then on, proceed() changes nothing, no
\* further message is enqueued and pick_output() never returns Ok(output).
C19_FailedMachineIsTerminal ==
    [][/\ \A p \in KParties :
              KFailedByError(p) =>
                  KFailedByError(p)' /\ KStaysTerminal(kg[p], kg'[p], kret'[p])
       /\ \A p \in SParties :
              SFailedByError(p) =>
                  SFailedByError(p)' /\ SStaysTerminal(sg[p], sg'[p], sret'[p])]_vars

\* A Keygen machine whose round 2 failed was asked for its output
C19_Witness ==
    \E p \in KParties :
        /\ KFailedByError(p)
        /\ kret[p].call = "pick_output" /\ kret[p].result = "SomeErr"
        /\ kg[p].executed = <<0, 1, 2>>

ProbeSign == \A p \in SParties : ~SFailedByError(p)

\* ------------------------------------------------------------------------
\* Signing with a LocalKey that was built by LocalKey::new or read back
\* from a file (examples/cli.rs, sign)
\* ------------------------------------------------------------------------

\* LocalKey::new
LocalKeyNew(t, n, sk_i, vk_vec, tpk) ==
    LET vk_i == G2Mul(sk_i)
        found == {j \in DOMAIN vk_vec : vk_vec[j] = vk_i}
    IN  IF n < 2 THEN [ok |-> FALSE, err |-> "TooFewParties", key |-> None]
        ELSE IF ~(1 <= t /\ t + 1 <= n)
        THEN [ok |-> FALSE, err |-> "ThresholdNotInRange", key |-> None]
        ELSE IF found = {}
        THEN [ok |-> FALSE, err |-> "VkDoesntIncludeSk", key |-> None]
        ELSE LET i == CHOOSE j \in found : \A j2 \in found : j <= j2
             IN  [ok |-> TRUE, err |-> "",
                  key |-> Some([shared_keys |-> [index |-> i - 1,
                                                 params |-> [threshold |-> t,
                                                             share_count |-> n],
                                                 vk |-> tpk, sk_i |-> sk_i],
                                vk_vec |-> vk_vec, i |-> i, t |-> t, n |-> n])]

\* The contents a key file may hold: the key as Keygen produced it, and
\* that key with one field changed
StoredKeys(key) ==
    {key,
     [key EXCEPT !.vk_vec = SubSeq(@, 1, Len(@) - 1)],
     [key EXCEPT !.vk_vec = Append(@, G2Mul(1))],
     [key EXCEPT !.vk_vec[key.i] = Add(@, 1)],
     [key EXCEPT !.i = 0],
     [key EXCEPT !.i = key.n + 1],
     [key EXCEPT !.t = 0],
     [key EXCEPT !.t = key.n]}

\* serde_json::from_slice of a key file restores the fields as they are
\* in the file; LocalKey::new is given t, n, sk_i, vk_vec and vk
LoadKey(how, stored) ==
    IF how = "new"
    THEN LocalKeyNew(stored.t, stored.n, stored.shared_keys.sk_i,
                     stored.vk_vec, stored.shared_keys.vk)
    ELSE [ok |-> TRUE, err |-> "", key |-> Some(stored)]

\* The invariants of a LocalKey: vk_vec has n entries, the entry of i is
\* g2 * sk_i, i is in [1, n] and t in [1, n - 1]
KeyConsistent(key) ==
    /\ Len(key.vk_vec) = key.n
    /\ key.i \in 1 .. key.n
    /\ key.vk_vec[key.i] = G2Mul(key.shared_keys.sk_i)
    /\ key.t \in 1 .. (key.n - 1)

\* (t, n) of the stored keys
StoredKeyParams == {<<1, 2>>, <<1, 3>>}

\* The signers of a stored-key run join in the order of their keygen index
StoredKeySigners(t, n) ==
    {s \in SignerLists(t, n) : \A a, b \in DOMAIN s : a < b => s[a] < s[b]}

\* The outcome of loading the key and of Sign::new(message, me, n', key):
\* the machine, when both pass
StoredKeySign(how, stored, message, me, signers_n, seed) ==
    LET loaded == LoadKey(how, stored)
    IN  IF ~loaded.ok THEN [outcome |-> loaded.err, key |-> None, machine |-> None]
        ELSE LET key == Unwrap(loaded.key)
                 checked == SignNew(me, signers_n, key.t, key.n)
             IN  [outcome |-> checked, key |-> Some(key),
                  machine |-> IF checked = "Ok"
                              THEN Some(SignBuilt(message, me, signers_n, key, seed))
                              ELSE None]

StoredKeyInitSign ==
    /\ kcfg = Unused /\ kg = Unused /\ kret = Unused /\ knet = {}
    /\ \E c \in StoredKeyParams, seed \in Seeds, message \in Messages :
           \E signers \in StoredKeySigners(c[1], c[2]), how \in {"new", "reload"} :
               \E me \in DOMAIN signers :
                   \E stored \in StoredKeys(HonestLocalKey(c[1], c[2], seed, signers[me])) :
                       LET made == StoredKeySign(how, stored, message, me, Len(signers), seed)
                           built == IF IsSome(made.machine) THEN {me} ELSE {}
                       IN  /\ scfg = [t |-> c[1], n |-> c[2], seed |-> seed,
                                      message |-> message, signers |-> signers,
                                      me |-> me, how |-> how, stored |-> stored,
                                      key |-> made.key, outcome |-> made.outcome]
                           /\ sg = [p \in built |-> Unwrap(made.machine)]
                           /\ sret = [p \in built |-> NoCall]
                           /\ snet = SEnvMsgs(c[1], c[2], seed, message, signers, me)

StoredKeyInit == ctor = Unused /\ cb = Unused /\ med = Unused /\ StoredKeyInitSign

StoredKeyNext ==
    \/ SCallHandleIncoming
    \/ SCallProceed
    \/ SCallPickOutput

SpecStoredKey == StoredKeyInit /\ [][StoredKeyNext]_vars

\* C20: an inconsistent LocalKey (vk_vec length # n, vk_vec[i-1] # g2*sk_i,
\* i outside [1, n], t outside [1, n-1]) is rejected with a validation
\* error before any signing round: neither LocalKey::new nor reloading a
\* stored key followed by Sign::new lets it reach Sign round 0.
C20_InconsistentKeyRejected ==
    (IsSome(scfg.key) /\ ~KeyConsistent(Unwrap(scfg.key))) =>
        (scfg.outcome # "Ok" /\ SParties = {})

\* A key read back with a vk_vec entry that is not g2 * sk_i signed in
\* round 0 and sent its partial signature
C20_InconsistentKeySigns ==
    \E p \in SParties :
        /\ ~KeyConsistent(Unwrap(scfg.key))
        /\ scfg.how = "reload"
        /\ Unwrap(scfg.key).i \in DOMAIN Unwrap(scfg.key).vk_vec
        /\ Unwrap(scfg.key).vk_vec[Unwrap(scfg.key).i]
               # G2Mul(Unwrap(scfg.key).shared_keys.sk_i)
        /\ 0 \in Range(sg[p].executed)
        /\ Len(sg[p].msgs_queue) = 1

\* A key LocalKey::new accepted with a vk_vec of n + 1 entries signed in
\* round 0
LocalKeyNewAcceptsLongVkVec ==
    \E p \in SParties :
        /\ scfg.how = "new"
        /\ Len(Unwrap(scfg.key).vk_vec) = scfg.n + 1
        /\ 0 \in Range(sg[p].executed)

\* ------------------------------------------------------------------------
\* A Keygen machine, or a Sign machine on a key as stored, under any
\* sequence of calls
\* ------------------------------------------------------------------------

FailingInit ==
    /\ ctor = Unused /\ cb = Unused /\ med = Unused
    /\ CallsInitKeygen \/ StoredKeyInitSign

SpecFailing == FailingInit /\ [][CallsNext]_vars

\* A Sign machine whose round 1 failed was asked to proceed
SignFailedThenProceed ==
    \E p \in SParties :
        /\ SFailedByError(p)
        /\ sg[p].executed = <<0, 1>>
        /\ sret[p].call = "proceed" /\ sret[p].result = "Ok"

\* ------------------------------------------------------------------------
\* The order of the vectors the Keygen rounds work on
\* ------------------------------------------------------------------------

\* What party j contributes to round k of the run (to party `to` in round 3)
KContribution(j, k, to) ==
    HonestKeygenBody(kcfg.t, kcfg.n, kcfg.seed, j, k, to)

\* C21: in Keygen the vectors of commitments, decommitments, (VSS scheme,
\* share) pairs and DLog proofs the round transitions work on are ordered by
\* party index 1..n, the party's own contribution at position i, whatever
\* the order the messages arrived in; the LocalKey (vk, vk_vec, sk_i) is the
\* same under every delivery interleaving.
C21_VectorsByPartyIndex ==
    \A p \in KParties :
        /\ kg[p].round = "Round2" =>
               kg[p].st.received_comm
                   = [j \in 1 .. kcfg.n |-> KContribution(j, 1, p)]
        /\ kg[p].round = "Round3" =>
               /\ kg[p].st.y_vec
                      = [j \in 1 .. kcfg.n |-> KContribution(j, 2, p).y_i]
               /\ kg[p].st.own_share = KContribution(p, 3, p).share
        /\ kg[p].round = "Round4" =>
               kg[p].st.shared_keys.sk_i
                   = SumSeq([j \in 1 .. kcfg.n |-> KContribution(j, 3, p).share])
        /\ KHasKey(p) =>
               /\ KKey(p).vk_vec = [j \in 1 .. kcfg.n |-> KContribution(j, 4, p).pk]
               /\ KKey(p).shared_keys.vk
                      = SumSeq([j \in 1 .. kcfg.n |-> KContribution(j, 2, p).y_i])
               /\ KKey(p).shared_keys.sk_i
                      = SumSeq([j \in 1 .. kcfg.n |-> KContribution(j, 3, p).share])

\* Party 1 of three built its vector of commitments, and has the
\* decommitment of party 3 before that of party 2
C21_Witness ==
    /\ kcfg.n = 3
    /\ kg[1].round = "Round2"
    /\ IsSome(Unwrap(kg[1].msgs[2]).msgs[3])
    /\ ~IsSome(Unwrap(kg[1].msgs[2]).msgs[2])
    /\ \E j \in 1 .. 3, k \in 1 .. 3 :
           j # k /\ kg[1].st.received_comm[j] # kg[1].st.received_comm[k]

\* ------------------------------------------------------------------------
\* Aggregated BLS (aggregated_bls/mod.rs, aggregated_bls/party_i.rs).
\* Indexes are 0-based, as party_index is.
\* ------------------------------------------------------------------------

\* h1(index, pk_vec): the hash of pk_vec[index] followed by pk_vec, as a
\* scalar
H1(index, pk_vec) ==
    1 + ((3 * pk_vec[index + 1]
          + SumSeq([k \in DOMAIN pk_vec |-> Mul(k + 1, pk_vec[k])])
          + Len(pk_vec)) % (Q - 1))

\* Keys::new(index), u being the scalar drawn
AggKeysNew(index, u) == [sk_i |-> u, pk_i |-> G2Mul(u), party_index |-> index]

\* pk_vec.iter().position(|y| y == x), for the x at position k
FirstPosition(pk_vec, k) ==
    (CHOOSE i \in DOMAIN pk_vec :
         pk_vec[i] = pk_vec[k] /\ \A i2 \in DOMAIN pk_vec : pk_vec[i2] = pk_vec[k] => i <= i2) - 1

\* The fold of Keys::aggregate, started at the generator
AggregateFold(pk_vec) ==
    Add(G2Mul(1),
        SumSeq([k \in DOMAIN pk_vec |->
                   Mul(pk_vec[FirstPosition(pk_vec, k) + 1],
                       H1(FirstPosition(pk_vec, k), pk_vec))]))

\* aggregate that leaves the generator in the sum
AggregateMutKeepsGenerator(pk_vec) == AggregateFold(pk_vec)

\* Keys::aggregate
Aggregate(pk_vec) == Sub(AggregateFold(pk_vec), G2Mul(1))

\* Keys::local_sign
LocalSign(keys, message, pk_vec) ==
    PointMul(HashToCurve(message), Mul(H1(keys.party_index, pk_vec), keys.sk_i))

\* Keys::combine_local_signatures: split_at(1) panics on an empty slice
CombineLocalSignatures(sigs) ==
    IF sigs = <<>> THEN [result |-> "Panic", sigma |-> 0]
    ELSE [result |-> "Ok", sigma |-> Add(Head(sigs), SumSeq(Tail(sigs)))]

\* Keys::efficient_pairing_loop: the product of the pairings of the zipped
\* vectors, an element of the target group written by its exponent
EfficientPairingLoop(vec_g1, vec_g2) ==
    LET len == IF Len(vec_g1) < Len(vec_g2) THEN Len(vec_g1) ELSE Len(vec_g2)
    IN  SumSeq([k \in 1 .. len |-> Pairing(vec_g1[k], vec_g2[k])])

\* Keys::core_aggregate_verify
CoreAggregateVerify(apk_vec, msg_vec, sig) ==
    LET product_c2 == EfficientPairingLoop(<<sig>>, <<G2Mul(1)>>)
        vec_g1 == [k \in DOMAIN msg_vec |-> HashToCurve(msg_vec[k])]
        product_c1 == EfficientPairingLoop(vec_g1, apk_vec)
    IN  product_c1 = product_c2

\* aggregate_verify without the test for equal messages
AggregateVerifyMutNoDistinct(apk_vec, msg_vec, sig) ==
    CoreAggregateVerify(apk_vec, msg_vec, sig)

\* Keys::aggregate_verify
AggregateVerify(apk_vec, msg_vec, sig) ==
    IF Cardinality(Range(msg_vec)) # Len(msg_vec) THEN FALSE
    ELSE CoreAggregateVerify(apk_vec, msg_vec, sig)

\* The longest batch and the longest list of key pairs
MaxBatch == 2

MaxKeys == 3

SeqsUpTo(S, n) == UNION {[1 .. k -> S] : k \in 0 .. n}

NoAggCall == [call |-> "none"]

AggInit == CombineIdle /\ cb = NoAggCall

\* One call of aggregate_verify
CallAggregateVerify ==
    /\ cb = NoAggCall
    /\ \E apk_vec \in SeqsUpTo(Scalars, MaxBatch), sigma \in Scalars :
           \E msg_vec \in SeqsUpTo(Messages, MaxBatch) :
               cb' = [call |-> "aggregate_verify", apk_vec |-> apk_vec,
                      msg_vec |-> msg_vec, sigma |-> sigma,
                      ret |-> AggregateVerify(apk_vec, msg_vec, sigma)]
    /\ CombineOnly

\* agg_sig_test_3 for any list of secret keys: key generation, aggregate,
\* local_sign of every party, combine_local_signatures
CallSignAll ==
    /\ cb = NoAggCall
    /\ \E sks \in SeqsUpTo(Scalars \ {0}, MaxKeys), message \in Messages :
           LET keys == [k \in DOMAIN sks |-> AggKeysNew(k - 1, sks[k])]
               pk_vec == [k \in DOMAIN sks |-> keys[k].pk_i]
               sig_vec == [k \in DOMAIN sks |-> LocalSign(keys[k], message, pk_vec)]
           IN  cb' = [call |-> "sign", keys |-> keys, pk_vec |-> pk_vec,
                      message |-> message, apk |-> Aggregate(pk_vec),
                      bls_sig |-> CombineLocalSignatures(sig_vec)]
    /\ CombineOnly

AggNext == CallAggregateVerify \/ CallSignAll

SpecAggregated == AggInit /\ [][AggNext]_vars

\* C22: Keys::aggregate_verify returns false for every batch in which two
\* messages are equal, for every list of aggregate keys and every signature,
\* a correct aggregate for that batch included.
C22_EqualMessagesRejected ==
    cb.call = "aggregate_verify" =>
        ((\E a, b \in DOMAIN cb.msg_vec : a # b /\ cb.msg_vec[a] = cb.msg_vec[b])
             => cb.ret = FALSE)

\* A batch of twice the same message with the signature that is the
\* aggregate of it was refused
C22_Witness ==
    /\ cb.call = "aggregate_verify"
    /\ Len(cb.msg_vec) = 2 /\ Len(cb.apk_vec) = 2
    /\ cb.msg_vec[1] = cb.msg_vec[2]
    /\ cb.apk_vec[1] # 0 /\ cb.apk_vec[2] # 0
    /\ CoreAggregateVerify(cb.apk_vec, cb.msg_vec, cb.sigma)
    /\ cb.ret = FALSE

NoProofCall == [call |-> "none"]

EcddhInit == CombineIdle /\ cb = NoProofCall

\* test_ecddh_proof and test_bad_ecddh_proof for any two base points, any
\* witness and any nonce: h2 is g2 * x, or g2 * (x + 1) when bad
CallProveVerify ==
    /\ cb = NoProofCall
    /\ \E g1 \in Scalars, g2 \in Scalars, x \in Scalars, s \in Scalars, bad \in BOOLEAN :
           LET delta == [g1 |-> g1, h1 |-> PointMul(g1, x), g2 |-> g2,
                         h2 |-> PointMul(g2, IF bad THEN Add(x, 1) ELSE x)]
               proof == ECDDHProve(x, delta, s)
           IN  cb' = [call |-> "prove_verify", delta |-> delta, x |-> x,
                      bad |-> bad, proof |-> proof,
                      ret |-> ECDDHVerify(proof, delta)]
    /\ CombineOnly

\* SharedKeys::partial_sign for any share, message and nonce
CallPartialSign ==
    /\ cb = NoProofCall
    /\ \E sk_i \in Scalars, message \in Messages, s \in Scalars :
           cb' = [call |-> "partial_sign", sk_i |-> sk_i, message |-> message,
                  ret |-> PartialSign([index |-> 0, sk_i |-> sk_i], message, s)]
    /\ CombineOnly

EcddhNext == CallProveVerify \/ CallPartialSign

SpecEcddh == EcddhInit /\ [][EcddhNext]_vars

\* C24: for every statement (g1, h1, g2, h2) and witness x with h1 = g1*x
\* and h2 = g2*x, verify(prove(x, statement), statement) is true, so the
\* assertion inside SharedKeys::partial_sign never fails; a proof produced
\* with x for a statement whose h2 = g2*(x+1), g2 not the identity, does not
\* verify.
C24_EcddhProofVerifies ==
    /\ (cb.call = "prove_verify" /\ ~cb.bad) => cb.ret
    /\ (cb.call = "prove_verify" /\ cb.bad /\ cb.delta.g2 # 0) => ~cb.ret
    /\ cb.call = "partial_sign" =>
           /\ cb.ret.ok
           /\ cb.ret.partial_sig.sigma_i = PointMul(HashToCurve(cb.message), cb.sk_i)

\* A proof for a statement whose h2 is g2 * (x + 1) passed the equation in
\* G1 and was refused
C24_Witness ==
    /\ cb.call = "prove_verify" /\ cb.bad /\ ~cb.ret
    /\ cb.delta.g1 # 0 /\ cb.delta.g2 # 0 /\ cb.x # 0
    /\ ECDDHVerifyMutG1Only(cb.proof, cb.delta)

\* ------------------------------------------------------------------------
\* The mediator (examples/mediator/server.rs, examples/mediator/client.rs).
\* One room_id; a Room lives as long as a connection or the room map holds
\* it, so the rooms are kept in objs and the map holds the position of one.
\* ------------------------------------------------------------------------

\* An AtomicU32 is written as its two 16-bit halves <<high, low>>
U16 == 65536

U32Zero == <<0, 0>>

\* The value after fetch_sub(1): it wraps around at zero
U32Sub1(v) ==
    IF v[2] > 0 THEN <<v[1], v[2] - 1>>
    ELSE IF v[1] > 0 THEN <<v[1] - 1, U16 - 1>>
    ELSE <<U16 - 1, U16 - 1>>

\* Room::default()
NewRoom == [idx |-> 0, parties_count |-> U32Zero, messages |-> <<>>]

\* Room::is_empty
RoomIsEmpty(room) == room.parties_count = U32Zero

\* collect_garbage that keeps the rooms that are not empty
CollectGarbageMutKeepUsed(rooms, objs) ==
    IF IsSome(rooms) /\ RoomIsEmpty(objs[Unwrap(rooms)]) THEN None ELSE rooms

\* Server::collect_garbage: rooms.retain(|_, room| room.is_empty())
CollectGarbage(rooms, objs) ==
    IF IsSome(rooms) /\ ~RoomIsEmpty(objs[Unwrap(rooms)]) THEN None ELSE rooms

\* The connections made in a run and the messages published in it
MaxConn == 3

MaxPublish == 2

Conns == 1 .. MaxConn

\* A connection before its join request.  before, alone and joined_at
\* record what the request found: the connections that had their index,
\* whether no party was connected, and the number of messages published.
NewConn ==
    [pc |-> "idle", room |-> 0, idx |-> 0, next_msg_idx |-> 0,
     forwarded |-> <<>>,
     before |-> {}, alone |-> FALSE, joined_at |-> 0]

\* The connection is in the loop of Mediator::join
MedConnected(c) == med.conn[c].pc \in {"loop", "waiting", "notify"}

MedHasIdx(c) == med.conn[c].pc \in {"loop", "waiting", "notify", "closed"}

MedIdle ==
    /\ ctor = Unused /\ cb = Unused
    /\ kcfg = Unused /\ kg = Unused /\ kret = Unused /\ knet = Unused
    /\ scfg = Unused /\ sg = Unused /\ sret = Unused /\ snet = Unused

MedOnly == UNCHANGED <<ctorVars, keygenVars, signVars, combineVars>>

\* Server::new().  published counts the messages sent so far, dropped
\* tells that a party has disconnected.
MedInit ==
    /\ MedIdle
    /\ med = [rooms |-> None, objs |-> <<>>, garbage |-> FALSE,
              conn |-> [c \in Conns |-> NewConn],
              published |-> 0, dropped |-> FALSE]

\* join_room: self.collect_garbage().await
MedJoinCollectGarbage(c) ==
    /\ med.conn[c].pc = "idle"
    /\ \A d \in Conns : d < c => med.conn[d].pc # "idle"
    /\ med' = [med EXCEPT
                  !.rooms = CollectGarbage(med.rooms, med.objs),
                  !.conn[c].pc = "gc",
                  !.conn[c].before = {d \in Conns : MedHasIdx(d)},
                  !.conn[c].alone = ~\E d \in Conns : MedConnected(d),
                  !.conn[c].joined_at = med.published]
    /\ MedOnly

\* join_room: the lookup under the read lock
MedJoinLookup(c) ==
    /\ med.conn[c].pc = "gc"
    /\ med' = IF IsSome(med.rooms)
              THEN [med EXCEPT !.conn[c].pc = "got",
                               !.conn[c].room = Unwrap(med.rooms)]
              ELSE [med EXCEPT !.conn[c].pc = "miss"]
    /\ MedOnly

\* the insertion that replaces the room the map holds
MedJoinEntryMutInsert(c) ==
    /\ med.conn[c].pc = "miss"
    /\ med' = [med EXCEPT !.objs = Append(@, NewRoom),
                          !.rooms = Some(Len(med.objs) + 1),
                          !.conn[c].pc = "got",
                          !.conn[c].room = Len(med.objs) + 1]
    /\ MedOnly

\* join_room: rooms.entry(room_id).or_insert_with(Room::default) under the
\* write lock
MedJoinEntry(c) ==
    /\ med.conn[c].pc = "miss"
    /\ med' = IF IsSome(med.rooms)
              THEN [med EXCEPT !.conn[c].pc = "got",
                               !.conn[c].room = Unwrap(med.rooms)]
              ELSE [med EXCEPT !.objs = Append(@, NewRoom),
                               !.rooms = Some(Len(med.objs) + 1),
                               !.conn[c].pc = "got",
                               !.conn[c].room = Len(med.objs) + 1]
    /\ MedOnly

\* join_room: room.issue_next_party_idx(); join answers with party-idx and
\* starts the loop with next_msg_idx = 0
MedJoinIssueIdx(c) ==
    /\ med.conn[c].pc = "got"
    /\ med' = [med EXCEPT !.objs[med.conn[c].room].idx = @ + 1,
                          !.conn[c].idx = med.objs[med.conn[c].room].idx + 1,
                          !.conn[c].pc = "loop"]
    /\ MedOnly

\* Room::recv up to its await, and the forwarding of what it returned: under
\* the read lock either the Notified is made (the connection waits), or
\* history[msg_id..] is taken and yielded to the client
MedRecv(c) ==
    LET history == med.objs[med.conn[c].room].messages
        msg_id == med.conn[c].next_msg_idx
    IN  /\ med.conn[c].pc = "loop"
        /\ med' = IF Len(history) <= msg_id
                  THEN [med EXCEPT !.conn[c].pc = "waiting"]
                  ELSE [med EXCEPT
                           !.conn[c].forwarded
                               = @ \o SubSeq(history, msg_id + 1, Len(history)),
                           !.conn[c].next_msg_idx = Len(history)]
        /\ MedOnly

\* The client sent a message (its bytes are the sender and a serial
\* number): select! drops the recv in progress and
\* Room::add_msg pushes the payload under the write lock
MedAddMsg(c) ==
    /\ med.conn[c].pc \in {"loop", "waiting"}
    /\ med.published < MaxPublish
    /\ LET payload == [sender |-> med.conn[c].idx, seq |-> med.published + 1]
       IN  med' = [med EXCEPT
                      !.objs[med.conn[c].room].messages = Append(@, payload),
                      !.conn[c].pc = "notify",
                      !.published = @ + 1]
    /\ MedOnly

\* Room::add_msg: self.changed.notify_waiters() wakes every Notified made
\* on the room before the call
MedNotifyWaiters(c) ==
    /\ med.conn[c].pc = "notify"
    /\ med' = [med EXCEPT
                  !.conn = [d \in Conns |->
                               IF d = c \/ (med.conn[d].pc = "waiting"
                                            /\ med.conn[d].room = med.conn[c].room)
                               THEN [med.conn[d] EXCEPT !.pc = "loop"]
                               ELSE med.conn[d]]]
    /\ MedOnly

\* The client closed its stream: the loop breaks and the JoinHandler is
\* dropped (party_disconnected, trigger_garbage_collection)
MedDisconnect(c) ==
    /\ med.conn[c].pc \in {"loop", "waiting"}
    /\ med' = [med EXCEPT
                  !.objs[med.conn[c].room].parties_count = U32Sub1(@),
                  !.garbage = @ \/ med.objs[med.conn[c].room].parties_count = U32Zero,
                  !.conn[c].pc = "closed",
                  !.dropped = TRUE]
    /\ MedOnly

MedNext ==
    \E c \in Conns :
        \/ MedJoinCollectGarbage(c)
        \/ MedJoinLookup(c)
        \/ MedJoinEntry(c)
        \/ MedJoinIssueIdx(c)
        \/ MedRecv(c)
        \/ MedAddMsg(c)
        \/ MedNotifyWaiters(c)
        \/ MedDisconnect(c)

SpecMediator == MedInit /\ [][MedNext]_vars


\* The connections that were given their party index
MedJoined == {c \in Conns : MedHasIdx(c)}

\* C25: as long as no party has disconnected, the parties that joined the
\* room, one after another or at the same time, hold the indexes 1..k, each
\* once, and a party whose join began after another had its index holds the
\* larger index.
C25_IndexesOneToK ==
    ~med.dropped =>
        /\ {med.conn[c].idx : c \in MedJoined} = 1 .. Cardinality(MedJoined)
        /\ \A c, d \in MedJoined : c # d => med.conn[c].idx # med.conn[d].idx
        /\ \A c \in MedJoined :
               \A d \in med.conn[c].before : med.conn[d].idx < med.conn[c].idx

\* Three parties joined and none left: the second began before the first
\* had its index, the third after both had theirs.
C25_Witness ==
    /\ ~med.dropped
    /\ MedJoined = Conns
    /\ med.conn[2].before = {}
    /\ med.conn[3].before = {1, 2}
    /\ med.conn[2].idx = 1

\* C28: a party whose join began when every party of the room_id had
\* disconnected is forwarded none of the messages published before that.
C28_HistoryCleansAfterAllLeft ==
    \A c \in Conns :
        med.conn[c].alone =>
            \A k \in DOMAIN med.conn[c].forwarded :
                med.conn[c].forwarded[k].seq > med.conn[c].joined_at

\* The first party published a message and left; the second joined after
\* that and was forwarded one message, a later one.
C28_Witness ==
    /\ med.conn[1].pc = "closed"
    /\ med.conn[2].alone
    /\ med.conn[2].joined_at = 1
    /\ Len(med.conn[2].forwarded) = 1

\* The scheduler runs every task that can run: a join request goes on, a
\* recv that can be polled is polled, an add_msg that pushed notifies.
SpecMediatorFair ==
    /\ SpecMediator
    /\ \A c \in Conns :
           /\ WF_vars(MedJoinLookup(c) \/ MedJoinEntry(c) \/ MedJoinIssueIdx(c))
           /\ WF_vars(MedRecv(c))
           /\ WF_vars(MedNotifyWaiters(c))

\* The Room the connection holds
MedRoomOf(c) == med.objs[med.conn[c].room]

\* Within one Room no wake-up is lost: a connected party is forwarded
\* every message of the Room it holds, unless it disconnects
RoomLogDelivered ==
    \A c \in Conns : \A k \in 1 .. MaxPublish :
        (MedConnected(c) /\ Len(MedRoomOf(c).messages) >= k)
            ~> (med.conn[c].pc = "closed"
                \/ (Len(med.conn[c].forwarded) >= k
                    /\ med.conn[c].forwarded[k] = MedRoomOf(c).messages[k]))

\* What a party was forwarded is the beginning of the history of its Room
RoomLogInOrder ==
    \A c \in Conns :
        MedHasIdx(c) => IsPrefix(med.conn[c].forwarded, MedRoomOf(c).messages)

\* C27: the parties connected to the room at the same time are forwarded
\* the same log, every message once and in publication order, a late
\* joiner from the first message on: what one of them was forwarded so far
\* is the beginning of what the other was.
C27_ConnectedPartiesFollowOneLog ==
    \A c, d \in Conns :
        (MedConnected(c) /\ MedConnected(d)) =>
            \/ IsPrefix(med.conn[c].forwarded, med.conn[d].forwarded)
            \/ IsPrefix(med.conn[d].forwarded, med.conn[c].forwarded)

\* Party 1 is connected and party 2 has left; party 3 joined after that and
\* holds another Room than party 1.  Each of the two published a message
\* and was forwarded its own only, and both wait for the next one.
C27_LateJoinerMissesLog ==
    /\ med.conn[2].pc = "closed"
    /\ med.conn[1].pc = "waiting" /\ med.conn[3].pc = "waiting"
    /\ med.conn[1].room # med.conn[3].room
    /\ med.conn[1].forwarded = <<[sender |-> med.conn[1].idx, seq |-> 1]>>
    /\ med.conn[3].forwarded = <<[sender |-> med.conn[3].idx, seq |-> 2]>>

\* ------------------------------------------------------------------------
\* The client of the mediator (examples/mediator/client.rs): the task that
\* Client::join spawns between the server's stream and incoming_rx
\* ------------------------------------------------------------------------

\* The messages the server forwards in a run
MaxForward == 3

\* mpsc::channel(10): the buffer of incoming_tx
IncomingBuffer == 10

\* What the server can forward: the bytes of a Msg<T> with any sender and
\* receiver, or bytes that are no Msg<T>
Payloads ==
    [ok : {TRUE}, sender : 1 .. 3, receiver : {None} \cup {Some(r) : r \in 1 .. 3}]
        \cup {[ok |-> FALSE, sender |-> 0, receiver |-> None]}

\* filter that lets the party's own messages through
ClientSkipsMutOwn(m, client_idx) ==
    m.ok /\ IsSome(m.receiver) /\ m.receiver # Some(client_idx)

\* The task's test on a server message m: TRUE when m deserializes and is
\* skipped (m.sender == client_idx || m.receiver.is_some() && m.receiver !=
\* Some(client_idx)); bytes that do not deserialize are passed on as Err
ClientSkips(m, client_idx) ==
    m.ok /\ (m.sender = client_idx
             \/ (IsSome(m.receiver) /\ m.receiver # Some(client_idx)))

\* Client::join returned (client_idx, incoming_rx, outcoming_tx): server is
\* what the server has forwarded, taken the number of messages the task
\* has read, chan the buffer of the channel, yielded what the party got
\* from incoming_rx
ClientInit ==
    /\ MedIdle
    /\ \E client_idx \in 1 .. 2 :
           med = [client_idx |-> client_idx, server |-> <<>>, taken |-> 0,
                  chan |-> <<>>, yielded |-> <<>>]

\* The server forwards one more message on the response stream
ClientServerForwards ==
    /\ Len(med.server) < MaxForward
    /\ \E m \in Payloads : med' = [med EXCEPT !.server = Append(@, m)]
    /\ MedOnly

\* One turn of the task's loop: server_messages.message().await, the
\* filter, incoming_tx.send(m).await (which waits while the buffer and the
\* sender's slot are taken)
ClientTask ==
    /\ med.taken < Len(med.server)
    /\ LET m == med.server[med.taken + 1]
       IN  IF ClientSkips(m, med.client_idx)
           THEN med' = [med EXCEPT !.taken = @ + 1]
           ELSE /\ Len(med.chan) <= IncomingBuffer
                /\ med' = [med EXCEPT !.taken = @ + 1, !.chan = Append(@, m)]
    /\ MedOnly

\* The party polls incoming_rx
ClientPoll ==
    /\ med.chan # <<>>
    /\ med' = [med EXCEPT !.chan = Tail(@), !.yielded = Append(@, Head(med.chan))]
    /\ MedOnly

ClientNext == ClientServerForwards \/ ClientTask \/ ClientPoll

SpecClient == ClientInit /\ [][ClientNext]_vars

\* A broadcast of another party or a P2P message addressed to client_idx
ClientWanted(m, client_idx) ==
    /\ m.ok
    /\ m.sender # client_idx
    /\ (m.receiver = None \/ m.receiver = Some(client_idx))

\* The messages of seq that deserialize, and those the party is to get
OkMessages(seq) == SelectSeq(seq, LAMBDA m : m.ok)

WantedMessages(seq, client_idx) ==
    SelectSeq(seq, LAMBDA m : ClientWanted(m, client_idx))

\* C26: the incoming stream of the party with index c yields no message
\* whose sender is c and no P2P message for another receiver; the
\* broadcasts of the other parties and the P2P messages addressed to c
\* that the task has read from the server are yielded or wait in the
\* channel, in the order the server forwarded them.
C26_ClientFilter ==
    /\ \A k \in DOMAIN med.yielded :
           med.yielded[k].ok =>
               /\ med.yielded[k].sender # med.client_idx
               /\ (IsSome(med.yielded[k].receiver) =>
                       med.yielded[k].receiver = Some(med.client_idx))
    /\ OkMessages(med.yielded \o med.chan)
           = WantedMessages(SubSeq(med.server, 1, med.taken), med.client_idx)

\* The server forwarded a message of the party itself, a P2P message for
\* another party and a broadcast of another party; the party was yielded
\* the broadcast and nothing else.
C26_Witness ==
    /\ med.client_idx = 1
    /\ med.taken = 3
    /\ med.server[1] = [ok |-> TRUE, sender |-> 1, receiver |-> None]
    /\ med.server[2] = [ok |-> TRUE, sender |-> 2, receiver |-> Some(3)]
    /\ med.server[3] = [ok |-> TRUE, sender |-> 2, receiver |-> None]
    /\ med.yielded = <<med.server[3]>>

\* ------------------------------------------------------------------------
\* Where the round transitions run (proceed_round and its may_block)
\* ------------------------------------------------------------------------

\* The machine as the constructor returned it: round 0, nothing enqueued,
\* no transition run, wants_to_proceed()
KJustBuilt(m) ==
    /\ m.round = "Round0" /\ m.msgs_queue = <<>> /\ m.executed = <<>>
    /\ KWantsToProceed(m)

SJustBuilt(m) ==
    /\ m.round = "Round0" /\ m.msgs_queue = <<>> /\ m.executed = <<>>
    /\ SWantsToProceed(m)

\* A call on the Keygen machine m that left m2: a transition ran, or the
\* machine left a round, only in proceed(), or it was the transition of
\* Round1 to Round2 in handle_incoming (pick_output takes the machine from
\* Final to Gone)
KAdvancesInProceed(m, m2, ret) ==
    (m2.executed # m.executed \/ (m2.round # m.round /\ m.round # "Final")) =>
        \/ ret.call = "proceed"
        \/ /\ ret.call = "handle_incoming"
           /\ m.round = "Round1" /\ m2.round = "Round2"
           /\ m2.executed = Append(m.executed, 1)

SAdvancesInProceed(m, m2, ret) ==
    (m2.executed # m.executed \/ (m2.round # m.round /\ m.round # "Final")) =>
        ret.call = "proceed"

\* C29: the machine Keygen::new or Sign::new returns is in round 0 with an
\* empty queue and wants to proceed; handle_incoming runs no transition but
\* that of Keygen's Round1 to Round2; every other transition of Keygen and
\* both of Sign run in proceed() only.
C29_ExpensiveRoundsOnlyInProceed ==
    /\ [](/\ \A p \in KParties : kret[p] = NoCall => KJustBuilt(kg[p])
          /\ \A p \in SParties : sret[p] = NoCall => SJustBuilt(sg[p]))
    /\ [][/\ \A p \in KParties : KAdvancesInProceed(kg[p], kg'[p], kret'[p])
          /\ \A p \in SParties : SAdvancesInProceed(sg[p], sg'[p], sret'[p])]_vars

\* handle_incoming stored the last commitment and ran Round1
C29_Witness ==
    \E p \in KParties :
        /\ kret[p].call = "handle_incoming" /\ kret[p].result = "Ok"
        /\ kret[p].ran = 1
        /\ kg[p].round = "Round2"
        /\ kg[p].executed = <<0, 1>>

\* ------------------------------------------------------------------------
\* wants_to_proceed and the proceed() of a machine that does not want to
\* ------------------------------------------------------------------------

\* The Keygen machine is in round k >= 1 and the store of round k holds the
\* message of every other party
KStoreFull(m) ==
    /\ m.round \in {"Round1", "Round2", "Round3", "Round4"}
    /\ IsSome(m.msgs[KCurrentRound(m)])
    /\ \A j \in Others(m.party_i, m.party_n) :
           Unwrap(m.msgs[KCurrentRound(m)]).msgs[j] # None

\* The Sign machine is in round 1 and its store holds t partial signatures
SStoreFull(m, t) ==
    /\ m.round = "Round1"
    /\ IsSome(m.msgs1)
    /\ Len(Unwrap(m.msgs1).msgs) = t

\* proceed() on m returned Ok and left the round, the stores and the queue
\* (and all the machine) as they were
ProceedLeaves(m, r) ==
    /\ r.ret.call = "proceed" /\ r.ret.result = "Ok"
    /\ r.m = m

\* C30: in every reachable state wants_to_proceed() is true exactly when
\* the machine is in round 0 or in a round k >= 1 whose store is full, and
\* when it is false proceed() returns Ok and changes nothing.
C30_WantsToProceedIffRoundCanRun ==
    /\ \A p \in KParties :
           /\ KWantsToProceed(kg[p]) <=> (kg[p].round = "Round0" \/ KStoreFull(kg[p]))
           /\ ~KWantsToProceed(kg[p]) =>
                  ProceedLeaves(kg[p], KProceed(kg[p], kcfg.seed))
    /\ \A p \in SParties :
           /\ SWantsToProceed(sg[p]) <=> (sg[p].round = "Round0" \/ SStoreFull(sg[p], scfg.t))
           /\ ~SWantsToProceed(sg[p]) =>
                  ProceedLeaves(sg[p], SProceed(sg[p], scfg.seed))

\* proceed() was called on a Keygen machine that waits in round 2 for
\* decommitments and returned Ok without running anything
C30_Witness ==
    \E p \in KParties :
        /\ kg[p].round = "Round2"
        /\ ~KWantsToProceed(kg[p])
        /\ \E j \in Others(kg[p].party_i, kg[p].party_n) :
               Unwrap(kg[p].msgs[2]).msgs[j] # None
        /\ kret[p].call = "proceed" /\ kret[p].result = "Ok" /\ kret[p].ran = 0

\* C39: a room stays on the map while a party is connected to it: a party
\* whose join began while another party was connected, and still is, holds
\* the same Room as that party (the same log and index counter) and an
\* index that party does not hold, and the map still holds that Room.
C39_RoomKeptWhilePartyConnected ==
    \A c, d \in Conns :
        (MedConnected(c) /\ MedConnected(d) /\ d \in med.conn[c].before) =>
            /\ med.conn[c].room = med.conn[d].room
            /\ med.conn[c].idx # med.conn[d].idx
            /\ med.rooms = Some(med.conn[d].room)

\* Party 1 is connected; party 2 joined and left; party 3 then joined the
\* room_id and was given a new Room, in which it holds index 1 as party 1
\* does in the first one, and none of its history.
C39_RoomSplitAfterDisconnect ==
    /\ MedConnected(1) /\ MedConnected(3)
    /\ med.conn[2].pc = "closed"
    /\ 1 \in med.conn[3].before
    /\ med.conn[3].room # med.conn[1].room
    /\ med.conn[3].idx = 1 /\ med.conn[1].idx = 1
    /\ MedRoomOf(1).messages # <<>>
    /\ MedRoomOf(3).messages = <<>>
    /\ MedRoomOf(1).parties_count = <<U16 - 1, U16 - 1>>

\* ------------------------------------------------------------------------
\* A Keygen machine or a Sign machine handed messages of every kind, the
\* argument of each handle_incoming kept with what it returned
\* ------------------------------------------------------------------------

HandledInit == RoutedInit \/ SignRoutedInit

HandledNext == RoutedNext \/ SignRoutedNext

SpecHandled == HandledInit /\ [][HandledNext]_vars

\* handle_incoming returned the error of a store or of a message out of
\* order
Rejected(ret) ==
    /\ ret.call = "handle_incoming" /\ ret.result = "Err"
    /\ ret.err.kind \in {"HandleMessage", "ReceivedOutOfOrderMessage"}

\* The round-1 store of a signer takes msg: it may keep it and holds no
\* partial signature under the keygen index msg claims
SValidFor(store, msg) ==
    /\ SAdmissible(store, msg)
    /\ \A k \in DOMAIN store.msgs : store.msgs[k][1] # msg.body[1]

\* msg2 comes from the sender of msg for the round of msg
SameSenderAndRound(msg, msg2) ==
    msg2.sender = msg.sender /\ msg2.round = msg.round

\* C31: a handle_incoming of Keygen or Sign that rejects its message leaves
\* the machine (the round, every store, the queue) as it was, and a valid
\* message of the same sender for the same round that the machine could
\* take before the call is accepted and stored after it.
C31_RejectionLeavesMachine ==
    [][/\ \A p \in KParties, msg \in knet :
              (KHandleStep(p, msg) /\ Rejected(kret'[p])) =>
                  /\ kg'[p] = kg[p]
                  /\ \A msg2 \in knet :
                         (SameSenderAndRound(msg, msg2) /\ KFreshFromPeer(kg[p], msg2)) =>
                             LET r == KHandleIncoming(kg'[p], msg2, kcfg.seed)
                             IN  r.ret.result = "Ok"
                                 /\ (KStored(r.m, msg2) \/ r.m.msgs[msg2.round] = None)
       /\ \A p \in SParties, msg \in snet :
              (SHandleStep(p, msg) /\ Rejected(sret'[p])) =>
                  /\ sg'[p] = sg[p]
                  /\ \A msg2 \in snet :
                         (/\ SameSenderAndRound(msg, msg2)
                          /\ IsSome(sg[p].msgs1)
                          /\ SValidFor(Unwrap(sg[p].msgs1), msg2)) =>
                             LET r == SHandleIncoming(sg'[p], msg2, scfg.seed)
                             IN  /\ r.ret.result = "Ok"
                                 /\ IsSome(r.m.msgs1)
                                 /\ msg2.sender \in Unwrap(r.m.msgs1).received_from]_vars

\* A Keygen machine in round 3 rejected a message of a peer for that round
\* (it was addressed to another party, or a broadcast) and can take the
\* share the peer addressed to it
C31_Witness ==
    \E p \in KParties :
        /\ Rejected(kret[p]) /\ IsSome(kret[p].arg)
        /\ kret[p].err.kind = "HandleMessage"
        /\ \E msg2 \in knet :
               /\ SameSenderAndRound(Unwrap(kret[p].arg), msg2)
               /\ KFreshFromPeer(kg[p], msg2)
               /\ msg2.round = 3 /\ kg[p].round = "Round3"

\* A Sign machine in round 1 rejected a partial signature that does not
\* verify and can take a valid one of the same sender
SignRejectedCanRetry ==
    \E p \in SParties :
        /\ Rejected(sret[p]) /\ IsSome(sret[p].arg)
        /\ sret[p].err.detail = "InvalidPartialSig"
        /\ sg[p].round = "Round1"
        /\ \E msg2 \in snet :
               /\ SameSenderAndRound(Unwrap(sret[p].arg), msg2)
               /\ IsSome(sg[p].msgs1)
               /\ SValidFor(Unwrap(sg[p].msgs1), msg2)

\* ------------------------------------------------------------------------
\* The outgoing queue of a Keygen machine
\* ------------------------------------------------------------------------

\* The length of the queue of a party of n after it ran e transitions
KQueueLenAfter(e, n) ==
    CASE e = 0 -> 0
      [] e = 1 -> 1
      [] e = 2 -> 2
      [] e = 3 -> n + 1
      [] OTHER -> n + 2

\* Message k of the queue q of party p is the broadcast of the round-r body
KIsBroadcastOf(q, k, p, r) ==
    /\ q[k].sender = p /\ q[k].receiver = None /\ q[k].round = r
    /\ q[k].body = KContribution(p, r, p)

\* Messages 3 .. n+1 of the queue q of party p are the n-1 P2P messages of
\* round 2: one for each other party, with p's VSS scheme and its share
KAreSharesOf(q, p, n) ==
    /\ \A k \in 3 .. n + 1 :
           /\ q[k].sender = p /\ q[k].round = 3
           /\ IsSome(q[k].receiver)
           /\ Unwrap(q[k].receiver) \in Others(p, n)
           /\ q[k].body = KContribution(p, 3, Unwrap(q[k].receiver))
    /\ {Unwrap(q[k].receiver) : k \in 3 .. n + 1} = Others(p, n)

\* C32: over a Keygen run the queue of party i holds, in this order, the
\* broadcast commitment of round 0, the broadcast decommitment of round 1,
\* the n-1 P2P messages of round 2, one for each j # i with i's VSS scheme
\* and the share f_i(j), and the broadcast DLog proof of round 3, all sent
\* by i; round 4 enqueues nothing and the machine removes nothing.
C32_KeygenQueue ==
    /\ [](\A p \in KParties :
              LET q == kg[p].msgs_queue
                  n == kcfg.n
              IN  /\ Len(q) = KQueueLenAfter(Len(kg[p].executed), n)
                  /\ Len(q) >= 1 => KIsBroadcastOf(q, 1, p, 1)
                  /\ Len(q) >= 2 => KIsBroadcastOf(q, 2, p, 2)
                  /\ Len(q) >= n + 1 => KAreSharesOf(q, p, n)
                  /\ Len(q) >= n + 2 => KIsBroadcastOf(q, n + 2, p, 4))
    /\ [][\A p \in KParties : IsPrefix(kg[p].msgs_queue, kg'[p].msgs_queue)]_vars

\* A party of a run of three has its key: its queue holds five messages
C32_Witness ==
    /\ kcfg.n = 3
    /\ KHasKey(2)
    /\ Len(kg[2].msgs_queue) = 5
    /\ kg[2].msgs_queue[3].receiver = Some(1)
    /\ kg[2].msgs_queue[4].receiver = Some(3)

\* ------------------------------------------------------------------------
\* The rounds of threshold_bls/state_machine/rounds.rs
\* ------------------------------------------------------------------------

\* The receiver Round2::proceed computes for secret_shares[i], i counted
\* from 0 as enumerate() does: none when party_i = i + 1, i + 1 when party_i
\* is less, i + 2 when it is greater
Round2ReceiverOf(party_i, i) ==
    IF party_i < i + 1 THEN Some(i + 1)
    ELSE IF party_i = i + 1 THEN None
    ELSE Some(i + 2)

\* Round2::proceed of state_machine/rounds.rs
Round2Proceed(r, input, seed) ==
    LET params == [threshold |-> r.t, share_count |-> r.n]
        received_decom == IntoVecIncludingMe(input, r.decom)
        higher == [k \in 1 .. r.t |-> Sample(seed, r.party_i, k)]
    IN  Bind(Phase1VerifyComPhase2Distribute(r.keys, params, received_decom,
                                             r.received_comm, higher), LAMBDA res :
        IF ~res.ok THEN [ok |-> FALSE, err |-> <<"Round2VerifyCommitments", res.err>>]
        ELSE LET pushing == SelectSeq([k \in 1 .. Len(res.secret_shares) |-> k - 1],
                                      LAMBDA i : IsSome(Round2ReceiverOf(r.party_i, i)))
             IN  [ok |-> TRUE,
                  out |-> [k \in DOMAIN pushing |->
                              Msg(r.party_i, Round2ReceiverOf(r.party_i, pushing[k]), 3,
                                  [vss |-> res.vss_scheme,
                                   share |-> res.secret_shares[pushing[k] + 1]])],
                  next |-> [keys |-> r.keys,
                            y_vec |-> [j \in DOMAIN received_decom |-> received_decom[j].y_i],
                            index |-> res.index,
                            own_vss |-> res.vss_scheme,
                            own_share |-> res.secret_shares[r.party_i],
                            party_i |-> r.party_i, t |-> r.t, n |-> r.n]])

NoRoundsCall == [call |-> "none"]

RoundsInit == CombineIdle /\ cb = NoRoundsCall

\* The Round2 of party i in a run of n parties with threshold t, as Round0
\* and Round1 of the same file leave it, and the decommitments of the others
RoundsRound2(t, n, seed, i) ==
    [keys |-> Phase1Create(i - 1, Sample(seed, i, 0)),
     received_comm |-> [j \in 1 .. n |-> HonestKeygenBody(t, n, seed, j, 1, i)],
     decom |-> HonestKeygenBody(t, n, seed, i, 2, i),
     party_i |-> i, t |-> t, n |-> n]

RoundsInput2(t, n, seed, i) ==
    [NewStore("broadcast", i, n) EXCEPT
        !.msgs = [j \in Others(i, n) |-> Some(HonestKeygenBody(t, n, seed, j, 2, i))]]

\* Round2::proceed for any party of any run
CallRound2Proceed ==
    /\ cb = NoRoundsCall
    /\ \E c \in KeyParams, seed \in 1 .. (Q - 1) :
       \E i \in 1 .. c[2] :
           cb' = [call |-> "Round2::proceed", party_i |-> i, t |-> c[1], n |-> c[2],
                  seed |-> seed,
                  ret |-> Round2Proceed(RoundsRound2(c[1], c[2], seed, i),
                                        RoundsInput2(c[1], c[2], seed, i), seed)]
    /\ CombineOnly

RoundsNext == CallRound2Proceed

SpecRounds == RoundsInit /\ [][RoundsNext]_vars

\* C33: Round2::proceed of state_machine/rounds.rs, for party i of n,
\* pushes exactly n-1 messages whose receivers are the n-1 indexes of 1..n
\* other than i, each carrying the share f_i(j) = secret_shares[j-1] of its
\* receiver j; none is addressed to i or outside 1..n.
C33_Round2AddressesShares ==
    cb # NoRoundsCall =>
        /\ cb.ret.ok
        /\ Len(cb.ret.out) = cb.n - 1
        /\ {m.receiver : m \in Range(cb.ret.out)} = {Some(j) : j \in Others(cb.party_i, cb.n)}
        /\ \A m \in Range(cb.ret.out) :
               /\ IsSome(m.receiver)
               /\ Unwrap(m.receiver) \in 1 .. cb.n
               /\ m.body.share
                      = HonestVss(cb.t, cb.n, cb.seed, cb.party_i).shares[Unwrap(m.receiver)]

\* Party 3 of a run of three addressed f(1) to party 2 and f(2) to itself,
\* and nothing to party 1
C33_ShareAddressedToSender ==
    /\ cb # NoRoundsCall
    /\ cb.party_i = 3 /\ cb.n = 3 /\ cb.ret.ok
    /\ LET f == HonestVss(cb.t, cb.n, cb.seed, 3).shares
       IN  /\ Len(cb.ret.out) = 2
           /\ cb.ret.out[1].receiver = Some(2) /\ cb.ret.out[1].body.share = f[1]
           /\ cb.ret.out[2].receiver = Some(3) /\ cb.ret.out[2].body.share = f[2]
           /\ cb.ret.out[2].sender = 3

\* ------------------------------------------------------------------------
\* Keygen round 3 on shares that do not fit
\* ------------------------------------------------------------------------

\* The round-3 bodies a dishonest peer b may send to party me: the share of
\* me changed, the share of another point of b's polynomial, and a sharing
\* of another secret than the one behind the y that b decommitted
KBadShareBodies(t, n, seed, b, me) ==
    LET own == HonestVss(t, n, seed, b)
        other == VssShare(t, n, Add(Sample(seed, b, 0), 1),
                          [k \in 1 .. t |-> Sample(seed, b, k)])
    IN  {[vss |-> own.scheme, share |-> Add(own.shares[me], 1)],
         [vss |-> own.scheme, share |-> own.shares[b]],
         [vss |-> other.scheme, share |-> other.shares[me]]}

KShareMsgs(t, n, seed, me) ==
    LET honest(j, k) == HonestKeygenBody(t, n, seed, j, k, me)
    IN  {Msg(j, KReceiver(k, me), k, honest(j, k)) : j \in Others(me, n), k \in 1 .. 4}
        \cup {Msg(BadPeer(me), Some(me), 3, body) :
                  body \in KBadShareBodies(t, n, seed, BadPeer(me), me)}

SharesInit ==
    /\ ctor = Unused /\ cb = Unused /\ med = Unused
    /\ scfg = Unused /\ sg = Unused /\ sret = Unused /\ snet = {}
    /\ \E c \in CallsParams, seed \in Seeds :
           \E me \in {1, c[2]} :
               /\ kcfg = [t |-> c[1], n |-> c[2], seed |-> seed, me |-> me]
               /\ kg = [p \in {me} |-> KeygenBuilt(me, c[1], c[2], seed)]
               /\ kret = [p \in {me} |-> NoCall]
               /\ knet = KShareMsgs(c[1], c[2], seed, me)

SharesNext ==
    \/ KCallHandleIncoming
    \/ KCallProceed
    \/ KCallPickOutput

SpecShares == SharesInit /\ [][SharesNext]_vars

\* The y_j round 3 of machine m compares with: those round 2 kept, or, when
\* round 2 has not run yet, those of the decommitments it will take and the
\* party's own y_i
KRound3YVec(m) ==
    IF m.round = "Round3" THEN m.st.y_vec
    ELSE [j \in 1 .. m.party_n |->
             IF j = m.party_i THEN G2Mul(Sample(kcfg.seed, j, 0))
             ELSE Unwrap(Unwrap(m.msgs[2]).msgs[j]).y_i]

\* The (VSS scheme, share) pairs round 3 of machine m works on
KRound3Pairs(m) ==
    LET own == HonestVss(kcfg.t, kcfg.n, kcfg.seed, m.party_i)
    IN  [j \in 1 .. m.party_n |->
            IF j # m.party_i THEN Unwrap(Unwrap(m.msgs[3]).msgs[j])
            ELSE IF m.round = "Round3"
                 THEN [vss |-> m.st.own_vss, share |-> m.st.own_share]
                 ELSE [vss |-> own.scheme, share |-> own.shares[m.party_i]]]

\* Both checks of round 3 pass for every party j
KSharesFit(m) ==
    \A j \in 1 .. m.party_n :
        /\ ValidateShare(KRound3Pairs(m)[j].vss, KRound3Pairs(m)[j].share, m.party_i)
        /\ KRound3Pairs(m)[j].vss.commitments[1] = KRound3YVec(m)[j]

\* The step ran round 3 of party p
KRanRound3(p) ==
    /\ 3 \notin Range(kg[p].executed)
    /\ 3 \in Range(kg'[p].executed)

\* C34: Keygen round 3 of party i succeeds only if, for every party j, the
\* share of j passes Feldman validation against j's scheme at point i and
\* the constant commitment of the scheme is the y_j decommitted in round 2;
\* otherwise the round returns InvalidShare, no DLogProof is enqueued and no
\* SharedKeys is produced.
C34_Round3ChecksEveryShare ==
    [][\A p \in KParties :
           (KRanRound3(p) /\ ~KSharesFit(kg[p])) =>
               /\ kg'[p].failed
               /\ kg'[p].executed[Len(kg'[p].executed)] = 3
               /\ kg'[p].st = None
               /\ kret'[p].result = "Err"
               /\ kret'[p].err.kind = "Round3VerifyVssConstruct"
               /\ kret'[p].err.detail = "KeyGenInvalidShare"
               /\ \A k \in 1 .. Len(kg'[p].msgs_queue) : kg'[p].msgs_queue[k].round # 4
               /\ ~KHasKey(p)']_vars

\* Round 3 of a party of three ran on a share or a scheme that does not fit
\* and returned InvalidShare
C34_Witness ==
    \E p \in KParties :
        /\ kg[p].failed
        /\ kg[p].executed = <<0, 1, 2, 3>>
        /\ kret[p].err.detail = "KeyGenInvalidShare"
        /\ kcfg.n = 3

\* Round 3 is about to run on a sharing of another secret than the one
\* behind the y decommitted, whose share validates at the party's point
KRound3RefusesOtherSecret ==
    \E p \in KParties :
        /\ kg[p].round = "Round3"
        /\ Unwrap(kg[p].msgs[3]).msgs[BadPeer(p)] # None
        /\ LET body == Unwrap(Unwrap(kg[p].msgs[3]).msgs[BadPeer(p)])
           IN  /\ ValidateShare(body.vss, body.share, p)
               /\ body.vss.commitments[1] # kg[p].st.y_vec[BadPeer(p)]
        /\ ~StoreWantsMore(Unwrap(kg[p].msgs[3]))

\* ------------------------------------------------------------------------
\* The message of a Sign machine
\* ------------------------------------------------------------------------

\* The public share of the key holder with the 1-based keygen index j
SPublicShare(j) == G2Mul(HonestSk(scfg.t, scfg.n, scfg.seed, j))

\* C35: Sign round 0 of the party with signing index i and keygen index
\* key.i enqueues exactly one message, with sender i, receiver None and body
\* (key.i, partial signature), key.i counted from 1; a receiver checks the
\* partial signature against vk_vec[key.i - 1], the public share of the
\* sender; a Sign machine enqueues no other message.
C35_SignBroadcastsKeygenIndex ==
    \A p \in SParties :
        LET q == sg[p].msgs_queue
        IN  /\ Len(q) = (IF 0 \in Range(sg[p].executed) THEN 1 ELSE 0)
            /\ Len(q) = 1 =>
                   /\ q[1].sender = p /\ q[1].receiver = None /\ q[1].round = 1
                   /\ q[1].body[1] = scfg.signers[p]
                   /\ q[1].body[1] \in 1 .. scfg.n
                   /\ q[1].body = HonestSignBody(scfg.t, scfg.n, scfg.seed,
                                                 scfg.message, scfg.signers, p)
            /\ IsSome(sg[p].msgs1) =>
                   LET store == Unwrap(sg[p].msgs1)
                   IN  /\ Len(store.msgs) = Cardinality(store.received_from)
                       /\ \A k \in DOMAIN store.msgs :
                              /\ store.vk_vec[store.msgs[k][1]]
                                     = SPublicShare(store.msgs[k][1])
                              /\ VerifyPartialSig(store.H_x, store.msgs[k][2],
                                                  SPublicShare(store.msgs[k][1]))
                              /\ \E j \in store.received_from :
                                     /\ scfg.signers[j] = store.msgs[k][1]
                                     /\ sg[j].msgs_queue = <<Msg(j, None, 1, store.msgs[k])>>

\* Signer 1, holding the key of party 3, took the partial signature of
\* signer 2, who holds the key of party 1, and has its signature
C35_Witness ==
    /\ scfg.signers = <<3, 1>>
    /\ SHasOutput(1)
    /\ sg[1].msgs_queue[1].body[1] = 3
    /\ sg[1].input1 = <<1>>
    /\ sg[2].msgs_queue[1].body[1] = 1

\* ------------------------------------------------------------------------
\* The order of the partial signatures in Sign round 1
\* ------------------------------------------------------------------------

\* The keygen indexes Round1::proceed of signer p handed to combine, in the
\* order of its vectors: those of the store, then the signer's own
SCombineIndexes(p) == Append(sg[p].input1, scfg.signers[p])

\* C36: in Sign round 1 the partial signatures and their keygen indexes are
\* handed to combine in ascending party-index order, whatever the order the
\* broadcasts arrived in, the local party's own at the position of its index.
C36_CombineInAscendingOrder ==
    \A p \in SParties :
        1 \in Range(sg[p].executed) =>
            \A a, b \in DOMAIN SCombineIndexes(p) :
                a < b => SCombineIndexes(p)[a] < SCombineIndexes(p)[b]

\* The holder of key 2 combined the partial signatures of the holders of
\* key 3 and key 1 in the order they arrived in, its own last
C36_CombineInArrivalOrder ==
    \E p \in SParties :
        /\ SHasOutput(p)
        /\ SCombineIndexes(p) = <<3, 1, 2>>

\* ------------------------------------------------------------------------
\* A Sign machine handed partial signatures whose index field was changed
\* ------------------------------------------------------------------------

\* The broadcast of the peer b with the index field of its PartialSignature
\* set to x: sigma_i and the proof are untouched, and so is the keygen index
\* published next to it
SReindexed(body, x) == <<body[1], [body[2] EXCEPT !.index = x]>>

SIndexMsgs(t, n, seed, message, signers, me) ==
    SEnvMsgs(t, n, seed, message, signers, me)
        \cup {Msg(BadPeer(me), None, 1,
                  SReindexed(HonestSignBody(t, n, seed, message, signers, BadPeer(me)), x))
                  : x \in 0 .. n}

IndexesInit ==
    /\ ctor = Unused /\ cb = Unused /\ med = Unused
    /\ kcfg = Unused /\ kg = Unused /\ kret = Unused /\ knet = {}
    /\ \E c \in KeygenParams, seed \in Seeds, message \in Messages :
           \E signers \in SignerLists(c[1], c[2]) :
               \E me \in DOMAIN signers :
                   /\ scfg = [t |-> c[1], n |-> c[2], seed |-> seed,
                              message |-> message, signers |-> signers, me |-> me]
                   /\ sg = [p \in {me} |->
                               SignBuilt(message, me, Len(signers),
                                         HonestLocalKey(c[1], c[2], seed, signers[me]),
                                         seed)]
                   /\ sret = [p \in {me} |-> NoCall]
                   /\ snet = SIndexMsgs(c[1], c[2], seed, message, signers, me)

IndexesNext ==
    \/ SCallHandleIncoming
    \/ SCallProceed
    \/ SCallPickOutput

SpecIndexes == IndexesInit /\ [][IndexesNext]_vars

\* C37: whatever messages were delivered, among them a valid partial
\* signature whose index field differs from the keygen index published with
\* it, every (H, sigma) a Sign machine yields satisfies
\* e(H, vk) = e(sigma, g2).
C37_YieldedSignatureVerifies ==
    \A p \in SParties : SHasOutput(p) =>
        /\ Unwrap(SOutput(p)).message = HashToCurve(scfg.message)
        /\ BlsVerify(SSigma(p), scfg.message, SGroupKey)

\* pick_output yielded a signature that does not verify under the group key
C37_InvalidSignatureYielded ==
    \E p \in SParties :
        /\ sret[p].call = "pick_output" /\ sret[p].result = "SomeOk"
        /\ ~BlsVerify(Unwrap(sret[p].val).sigma, scfg.message, SGroupKey)
        /\ sg[p].input1 = <<scfg.signers[BadPeer(p)]>>

\* The store holds a partial signature that passed push_msg with an index
\* field that is not the keygen index published with it
SStoredReindexed ==
    \E p \in SParties :
        /\ IsSome(sg[p].msgs1)
        /\ \E k \in DOMAIN Unwrap(sg[p].msgs1).msgs :
               Unwrap(sg[p].msgs1).msgs[k][2].index # Unwrap(sg[p].msgs1).msgs[k][1] - 1

\* ------------------------------------------------------------------------
\* The keygen indexes of Sign round 1
\* ------------------------------------------------------------------------

\* C38: the keygen indexes handed to combine in Sign round 1, those stored
\* and the local party's own, are pairwise distinct: a message claiming the
\* local party's own keygen index, or an index already stored, is never
\* combined.
C38_CombinedIndexesDistinct ==
    \A p \in SParties :
        1 \in Range(sg[p].executed) =>
            \A a, b \in DOMAIN SCombineIndexes(p) :
                SCombineIndexes(p)[a] = SCombineIndexes(p)[b] => a = b

\* Round 1 ran on a stored partial signature that claims the local party's
\* own keygen index, and the call did not return
C38_OwnIndexCombined ==
    \E p \in SParties :
        /\ 1 \in Range(sg[p].executed)
        /\ \E k \in DOMAIN sg[p].input1 : sg[p].input1[k] = scfg.signers[p]
        /\ sret[p].call = "proceed" /\ sret[p].result = "Panic"
        /\ sg[p].failed

\* ------------------------------------------------------------------------
\* ReceiveFirstValidPartialSigs::blame
\* ------------------------------------------------------------------------

\* What the build does with an integer overflow: a debug build panics, a
\* release build wraps
Builds == {"debug", "release"}

\* a - b in u16
U16Sub(a, b, build) ==
    IF a >= b THEN [ok |-> TRUE, val |-> a - b]
    ELSE IF build = "debug" THEN [ok |-> FALSE, val |-> 0]
    ELSE [ok |-> TRUE, val |-> (a - b) % U16]

\* ReceiveFirstValidPartialSigs::blame: left is
\* u16::try_from(self.msgs.len()).unwrap() - self.threshold - 1
SStoreBlame(store, build) ==
    LET d1 == U16Sub(Len(store.msgs), store.threshold, build)
        d2 == U16Sub(d1.val, 1, build)
        didnt_send_message == SortedSeq({j \in 1 .. store.signers_n :
                                            j \notin store.received_from})
    IN  IF d1.ok /\ d2.ok
        THEN Ret("blame", "Ok", NoError,
                 Some([left |-> d2.val, didnt_send_message |-> didnt_send_message]))
        ELSE Ret("blame", "Panic", Error("overflow", "attempt to subtract with overflow", 1, 1),
                 None)

BlameInit ==
    /\ ctor = Unused /\ cb = Unused /\ med = Unused
    /\ CallsInitSign

\* blame() on the store of round 1, in either build
SCallBlame ==
    \E p \in SParties, build \in Builds :
        /\ SAlive(p)
        /\ IsSome(sg[p].msgs1)
        /\ \E r \in {[m |-> sg[p], ret |-> SStoreBlame(Unwrap(sg[p].msgs1), build)]} :
               SApply(p, r) /\ UNCHANGED snet /\ SignOnly

BlameNext ==
    \/ SCallHandleIncoming
    \/ SCallProceed
    \/ SCallPickOutput
    \/ SCallBlame

SpecBlame == BlameInit /\ [][BlameNext]_vars

\* The bodies of a store carry pairwise different keygen indexes and the
\* store holds at most threshold of them
SStoreWithinThreshold ==
    \A p \in SParties : IsSome(sg[p].msgs1) =>
        LET store == Unwrap(sg[p].msgs1)
        IN  /\ Len(store.msgs) <= store.threshold
            /\ \A a, b \in DOMAIN store.msgs :
                   store.msgs[a][1] = store.msgs[b][1] => a = b

\* C40: blame(), called in any reachable state of the store (0 <= stored
\* messages <= threshold), computes its first component in u16 without
\* underflow: it returns the number of partial signatures still missing,
\* together with the signers from whom no message was accepted.
C40_BlameCountsMissing ==
    \A p \in SParties : sret[p].call = "blame" =>
        LET store == Unwrap(sg[p].msgs1)
        IN  /\ sret[p].result = "Ok"
            /\ Unwrap(sret[p].val).left = store.threshold - Len(store.msgs)
            /\ Unwrap(sret[p].val).didnt_send_message
                   = SortedSeq((1 .. store.signers_n) \ store.received_from)

\* blame() on a store that holds threshold messages returned 65535 in the
\* build that wraps
C40_BlameWrapped ==
    \E p \in SParties :
        /\ sret[p].call = "blame" /\ sret[p].result = "Ok"
        /\ Len(Unwrap(sg[p].msgs1).msgs) = Unwrap(sg[p].msgs1).threshold
        /\ Unwrap(sret[p].val).left = U16 - 1

\* blame() panicked on an empty store in the build that checks overflow
SBlamePanicked ==
    \E p \in SParties :
        /\ sret[p].call = "blame" /\ sret[p].result = "Panic"
        /\ Unwrap(sg[p].msgs1).msgs = <<>>

====
